---- MODULE Spec2Model ----
(***************************************************************************)
(* The MCP request-processing middleware chain of ToolHive:                *)
(*   Authentication -> MCP Parsing -> Authorization -> Telemetry -> Audit  *)
(*   -> MCP Server handler, and back out through Audit, Telemetry and the  *)
(*   Authorization middleware's response filtering.                        *)
(* One inbound request is in flight at a time; the process-wide telemetry  *)
(* counter and the compiled policy set outlive it.                         *)
(***************************************************************************)
EXTENDS Integers, Sequences, FiniteSets, TLC

\* ---------------------------------------------------------------- bounds
MaxItems == 2        \* longest list the backend returns
MaxRequests == 2     \* requests received by one process

\* ------------------------------------------------------------ input sets
Items == {"a", "b"}
Principals == {"alice", "bob"}
Tokens == Principals \cup {"bad"}
AuthModes == {"jwt", "anonymous", "local"}
LocalUser == "alice"
RequestIds == {"1"}

SkipMethods == {"ping", "progress/update", "initialize"}
ListMethods == {"tools/list", "prompts/list", "resources/list"}
HandlerMethods ==
  {"initialize", "tools/call", "prompts/get", "resources/read",
   "resources/list", "tools/list", "prompts/list", "progress/update",
   "notifications/message", "logging/setLevel", "completion/complete"}
StaticMethods == {"ping", "notifications/roots/list_changed", "notifications/initialized"}
UnknownMethods == {"foo/bar"}
Methods == HandlerMethods \cup StaticMethods \cup UnknownMethods

\* The JSON-RPC bodies a client may send: a well-formed envelope or garbage.
NoBody == [wellFormed |-> FALSE, method |-> "", id |-> "", name |-> "", uri |-> ""]
Bodies ==
  [wellFormed : {TRUE}, method : Methods, id : RequestIds, name : Items, uri : Items]
    \cup {NoBody}

\* The inbound HTTP requests: POST with JSON content, POST with other content,
\* plain GET, and the SSE endpoint establishment (a GET).
HttpRequests ==
  [httpMethod : {"POST"}, contentType : {"json"}, sse : {FALSE}, body : Bodies]
    \cup [httpMethod : {"POST"}, contentType : {"text"}, sse : {FALSE}, body : {NoBody}]
    \cup [httpMethod : {"GET"}, contentType : {"none"}, sse : BOOLEAN, body : {NoBody}]

\* A policy set: the (principal, feature, operation, resource) tuples permitted.
PermitNothing == {}
AlicePolicy ==
  {<<"alice", "tool", "call", "a">>, <<"alice", "tool", "list", "a">>,
   <<"alice", "prompt", "list", "b">>, <<"alice", "resource", "read", "b">>}
MixedPolicy ==
  AlicePolicy \cup
  {<<"bob", "tool", "list", "a">>, <<"bob", "tool", "list", "b">>,
   <<"bob", "prompt", "get", "a">>, <<"bob", "resource", "list", "a">>,
   <<"anonymous", "tool", "call", "b">>}
PolicySets == {PermitNothing, AlicePolicy, MixedPolicy}

\* ------------------------------------------------------- MCP parsing
NoParsed ==
  [present |-> FALSE, method |-> "", id |-> "", resourceID |-> "",
   arguments |-> "", isRequest |-> FALSE, isBatch |-> FALSE]

\* Static resource IDs of the argument-less control methods.
StaticResourceID(method) ==
  CASE method = "ping" -> "ping"
    [] method = "notifications/roots/list_changed" -> "roots"
    [] method = "notifications/initialized" -> "initialized"
    [] OTHER -> ""

\* The resource ID the method's handler projects out of params.
ResourceID(body) ==
  CASE body.method \in {"tools/call", "prompts/get"} -> body.name
    [] body.method = "resources/read" -> body.uri
    [] body.method \in StaticMethods -> StaticResourceID(body.method)
    [] OTHER -> ""

\* The params field the method's handler takes the arguments from.
ArgumentsField(method) ==
  CASE method = "initialize" -> "clientInfo.name"
    [] method \in {"tools/call", "prompts/get"} -> "arguments"
    [] method \in ListMethods -> "cursor"
    [] method = "progress/update" -> "progressToken"
    [] method = "notifications/message" -> "method"
    [] method = "logging/setLevel" -> "level"
    [] method = "completion/complete" -> "ref"
    [] OTHER -> ""

\* Only POST requests with JSON content are parsed; the SSE endpoint
\* establishment is skipped.
IsParseable(r) ==
  r.httpMethod = "POST" /\ r.contentType = "json" /\ ~r.sse

\* Faulty variant: a body that is no JSON-RPC message yields an empty parsed request.
ParseMCPRequestOfGarbage(r) ==
  IF IsParseable(r)
    THEN [present |-> TRUE, method |-> r.body.method, id |-> r.body.id,
          resourceID |-> ResourceID(r.body),
          arguments |-> ArgumentsField(r.body.method),
          isRequest |-> TRUE, isBatch |-> FALSE]
    ELSE NoParsed

\* The parsing middleware: the ParsedMCPRequest it stores in the context, or
\* none when the body is no JSON-RPC message (the chain continues without it).
ParseMCPRequest(r) ==
  IF IsParseable(r) /\ r.body.wellFormed
    THEN [present |-> TRUE, method |-> r.body.method, id |-> r.body.id,
          resourceID |-> ResourceID(r.body),
          arguments |-> ArgumentsField(r.body.method),
          isRequest |-> TRUE, isBatch |-> FALSE]
    ELSE NoParsed

\* ------------------------------------------------------ authentication
NoClaims == [present |-> FALSE, sub |-> "", iss |-> ""]

\* The claims the configured authentication middleware adds to the context;
\* none when the JWT validator rejects the token.
ResolveClaims(mode, token) ==
  CASE mode = "anonymous" -> [present |-> TRUE, sub |-> "anonymous", iss |-> "toolhive-local"]
    [] mode = "local" -> [present |-> TRUE, sub |-> LocalUser, iss |-> "localhost"]
    [] OTHER -> IF token \in Principals
                  THEN [present |-> TRUE, sub |-> token, iss |-> "issuer"]
                  ELSE NoClaims

\* ------------------------------------------------------- authorization
NoFeatureOperation == [mapped |-> FALSE, feature |-> "", operation |-> ""]

\* MCPMethodToFeatureOperation: the static (feature, operation) table.
MCPMethodToFeatureOperation(method) ==
  CASE method = "tools/call" -> [mapped |-> TRUE, feature |-> "tool", operation |-> "call"]
    [] method = "tools/list" -> [mapped |-> TRUE, feature |-> "tool", operation |-> "list"]
    [] method = "prompts/get" -> [mapped |-> TRUE, feature |-> "prompt", operation |-> "get"]
    [] method = "prompts/list" -> [mapped |-> TRUE, feature |-> "prompt", operation |-> "list"]
    [] method = "resources/read" -> [mapped |-> TRUE, feature |-> "resource", operation |-> "read"]
    [] method = "resources/list" -> [mapped |-> TRUE, feature |-> "resource", operation |-> "list"]
    [] OTHER -> NoFeatureOperation

\* Requests the authorization middleware lets through without looking at the
\* policy set: non-POST requests, non-JSON content and the SSE establishment.
SkipsByTransport(r) ==
  r.httpMethod # "POST" \/ r.contentType # "json" \/ r.sse

\* Faulty variant: ping is missing from the skip list.
IsSkipMethodWithoutPing(method) == method \in SkipMethods \ {"ping"}

\* Methods that carry no access-control meaning.
IsSkipMethod(method) == method \in SkipMethods

\* Faulty variant: only tools/list is treated as a list operation.
IsListOperationToolsOnly(fo) == fo.mapped /\ fo.operation = "list" /\ fo.feature = "tool"

\* List operations are allowed and their response is filtered.
IsListOperation(fo) == fo.mapped /\ fo.operation = "list"

\* The Cedar entities (principal, action, resource) of one evaluation.
Entity(c, fo, resource) ==
  [principal |-> c.sub, feature |-> fo.feature, operation |-> fo.operation,
   resource |-> resource]

\* Whether the compiled policy set permits the entity.
Permits(pol, e) ==
  <<e.principal, e.feature, e.operation, e.resource>> \in pol

\* Faulty variant: an evaluation error is taken for a permit (fail-open).
EvaluationOutcomeFailOpen(pol, e, fault) ==
  IF fault THEN "Allow"
  ELSE IF Permits(pol, e) THEN "Allow" ELSE "Deny"

\* The outcome of evaluating an entity: a per-request evaluation error is a
\* denial.
EvaluationOutcome(pol, e, fault) ==
  IF fault THEN "Deny"
  ELSE IF Permits(pol, e) THEN "Allow" ELSE "Deny"

\* Faulty variant: a method with no mapping is let through (fail-open).
UnmappedOutcomeAllow == "Allow"

\* The outcome for a parsed method that has no (feature, operation) mapping.
UnmappedOutcome == "Deny"

\* The authorization middleware's decision for a request.  evaluated tells
\* whether entities were built and the policy set was consulted.
Authorization(r, c, p, pol, fault) ==
  IF SkipsByTransport(r)
    THEN [outcome |-> "Allow", reason |-> "skip: transport", evaluated |-> FALSE]
  ELSE IF ~p.present
    THEN [outcome |-> "Allow", reason |-> "skip: not parsed", evaluated |-> FALSE]
  ELSE IF IsSkipMethod(p.method)
    THEN [outcome |-> "Allow", reason |-> "skip: method", evaluated |-> FALSE]
  ELSE LET fo == MCPMethodToFeatureOperation(p.method) IN
    IF ~fo.mapped
      THEN [outcome |-> UnmappedOutcome, reason |-> "unmapped method", evaluated |-> FALSE]
    ELSE IF IsListOperation(fo)
      THEN [outcome |-> "AllowFiltered", reason |-> "list operation", evaluated |-> FALSE]
    ELSE [outcome |-> EvaluationOutcome(pol, Entity(c, fo, p.resourceID), fault),
          reason |-> IF fault THEN "evaluation fault" ELSE "policy",
          evaluated |-> TRUE]

NoDecision == [outcome |-> "", reason |-> "", evaluated |-> FALSE]

\* The per-item predicate of response filtering: the same evaluation with
\* the item's identifier as resource.
ItemAccessible(pol, c, fo, item, faulty) ==
  EvaluationOutcome(pol, Entity(c, fo, item), item \in faulty) = "Allow"

\* Faulty variant: the surviving items are collected in reverse order.
RECURSIVE FilterItemsReversed(_, _)
FilterItemsReversed(items, keep) ==
  IF items = <<>> THEN <<>>
  ELSE IF Head(items) \in keep
    THEN FilterItemsReversed(Tail(items), keep) \o <<Head(items)>>
    ELSE FilterItemsReversed(Tail(items), keep)

\* The items of a list that pass the predicate, in their original order.
RECURSIVE FilterItems(_, _)
FilterItems(items, keep) ==
  IF items = <<>> THEN <<>>
  ELSE IF Head(items) \in keep
    THEN <<Head(items)>> \o FilterItems(Tail(items), keep)
    ELSE FilterItems(Tail(items), keep)

\* ----------------------------------------------------------- responses
NoResponse ==
  [status |-> 0, header |-> "", kind |-> "none", id |-> "", items |-> <<>>, code |-> 0]

\* 401 with a WWW-Authenticate header, written by the JWT middleware.
UnauthorizedResponse ==
  [status |-> 401, header |-> "WWW-Authenticate: Bearer realm=issuer", kind |-> "http",
   id |-> "", items |-> <<>>, code |-> 401]

\* 403 in JSON-RPC error format, written by the authorization middleware.
ForbiddenResponse(id) ==
  [status |-> 403, header |-> "", kind |-> "error", id |-> id, items |-> <<>>, code |-> 403]

ItemLists == UNION {[1..n -> Items] : n \in 0..MaxItems}

\* What the MCP server may answer: a result holding a list, a JSON-RPC error
\* object, or an opaque 5xx.
BackendResponses(id) ==
  [status : {200}, header : {""}, kind : {"result"}, id : {id}, items : ItemLists, code : {0}]
    \cup {[status |-> 200, header |-> "", kind |-> "error", id |-> id, items |-> <<>>, code |-> 1],
          [status |-> 500, header |-> "", kind |-> "opaque", id |-> "", items |-> <<>>, code |-> 0]}

\* Faulty variant: a body that is no list-shaped result is replaced by an
\* empty result.
FilterResponseRewriting(resp, keep) ==
  [resp EXCEPT !.kind = "result", !.items = FilterItems(resp.items, keep)]

\* ResponseFilteringWriter: a list-shaped result keeps its envelope and loses
\* the items that fail the predicate; any other body passes unmodified.
FilterResponse(resp, keep) ==
  IF resp.kind = "result"
    THEN [resp EXCEPT !.items = FilterItems(resp.items, keep)]
    ELSE resp

\* --------------------------------------------------- audit and telemetry
\* The audit event type, by MCP method when one was parsed.
EventType(r, p) ==
  CASE r.sse -> "sse_connection"
    [] p.present /\ p.method = "tools/call" -> "mcp_tool_call"
    [] p.present /\ p.method = "resources/read" -> "mcp_resource_read"
    [] p.present /\ p.method = "prompts/get" -> "mcp_prompt_get"
    [] p.present /\ p.method \in ListMethods -> "mcp_list_operation"
    [] p.present /\ p.method = "initialize" -> "mcp_initialize"
    [] OTHER -> "http_request"

\* The audit outcome, by HTTP status.
Outcome(status) ==
  CASE status >= 200 /\ status < 300 -> "success"
    [] status \in {401, 403} -> "denied"
    [] status >= 400 /\ status < 500 -> "failure"
    [] OTHER -> "error"

AuditEvent(r, c, p, status) ==
  [type |-> EventType(r, p), outcome |-> Outcome(status), subject |-> c.sub,
   resourceID |-> p.resourceID]

\* Faulty variant: the event is logged on the way in and again on the way out.
LoggedEventsTwice(ev) == <<ev, ev>>

\* The audit events one pass through the audit middleware logs.
LoggedEvents(ev) == <<ev>>

\* Faulty variant: a failed emission aborts the request.
AfterRecordingAbort(ok, next) == IF ok THEN next ELSE "end"

\* Where a recorder hands the request on after emitting to its sink: a
\* failure of the sink is logged locally and swallowed.
AfterRecording(ok, next) == next

\* The span name: the MCP method when available, else the HTTP method.
SpanName(r, p) == IF p.present THEN p.method ELSE r.httpMethod

\* ------------------------------------------------------ the chain order
\* Faulty variant: authorization is placed before MCP parsing.
ChainAuthzBeforeParse == <<"auth", "authz", "parse", "telemetry", "audit", "backend">>

\* The middleware order, outermost first, ending in the MCP server handler.
Chain == <<"auth", "parse", "authz", "telemetry", "audit", "backend">>

IndexOf(seq, x) == CHOOSE i \in 1..Len(seq) : seq[i] = x

\* next.ServeHTTP: the stage a middleware hands the request to.
NextStage(stage) == Chain[IndexOf(Chain, stage) + 1]

\* Faulty variant: the response filter runs before the recorders.
ReturnToFilterFirst(stage) ==
  CASE stage = "backend" -> "authz.exit"
    [] stage = "authz" -> "audit.exit"
    [] stage = "audit" -> "telemetry.exit"
    [] OTHER -> "end"

\* The middleware the response returns to when a stage's ServeHTTP returns:
\* the nearest enclosing one that acts on the way out, or the client.
ReturnTo(stage) ==
  CASE stage = "backend" -> "audit.exit"
    [] stage = "audit" -> "telemetry.exit"
    [] stage = "telemetry" -> "authz.exit"
    [] OTHER -> "end"

\* Faulty variant: a denied request is decided again.
AfterDecisionRetry(outcome) ==
  IF outcome = "Deny" THEN "authz" ELSE NextStage("authz")

\* Faulty variant: the 403 is written but the chain is not left.
AfterDecisionNoReturn(outcome) == NextStage("authz")

\* Where the authorization middleware sends the request after deciding.
AfterDecision(outcome) ==
  IF outcome = "Deny" THEN "end" ELSE NextStage("authz")

\* Faulty variant: the 401 is written but the chain is not left.
AfterAuthenticationNoReturn(c) == NextStage("auth")

\* Where the authentication middleware sends the request.
AfterAuthentication(c) ==
  IF c.present THEN NextStage("auth") ELSE "end"

\* ---------------------------------------------------------------- state
VARIABLES
  policy,          \* the compiled policy set, loaded once at startup
  authMode,        \* the configured authentication variant
  requestCounter,  \* toolhive_mcp_requests, process-wide
  served,          \* requests received so far
  req,             \* the inbound HTTP request in flight
  pc,              \* the stage the request is at
  claims,          \* context: ClaimsContextKey
  parsed,          \* context: MCPRequestContextKey
  decision,        \* the authorization middleware's decision
  evalFault,       \* whether policy evaluation raised an error for the request
  recordingFailed, \* whether an audit or telemetry emission of the request failed
  spans,           \* telemetry spans created for the request
  auditLog,        \* audit events logged for the request
  backendResp,     \* what the MCP server handler answered
  response,        \* what has been written to the client
  trace            \* the steps taken for the request, in order

\* State of the other components; the middleware chain leaves it alone.
VARIABLES
  workers,         \* concurrently processed requests, by execution unit
  cluster,         \* the secrets stored in the Kubernetes cluster, by namespace
  namespace,       \* KubernetesManager.namespace
  lastOp,          \* the latest call on the secrets package and what it returned
  runConfig,       \* the RunConfig: EnvVars, Secrets, ContainerOptions
  runResult,       \* what the latest RunConfig.WithSecrets call returned
  builder,         \* MCPServerPodTemplateSpecBuilder.spec
  lastSecrets,     \* the secrets passed to the builder's WithSecrets, once called
  userTemplate,    \* the user-provided template the builder was created from
  lastVault,       \* the arguments of the builder's WithVaultAnnotations, once called
  buildResult,     \* what the builder's Build returned, once called
  mcpSecrets,      \* the MCPServer's spec.secrets the operator made --secret arguments from
  vaultFs,         \* what the runner finds under /vault/secrets
  vaultEnv,        \* what the latest processing of Vault secret files returned
  keyring,         \* the OS keyring: whether it works, and the stored password
  terminal,        \* whether the process is detached, and the password prompts shown
  passwordResult,  \* what the latest GetSecretsPassword call returned
  apiRequest,      \* the request the version route is serving
  writer           \* the http.ResponseWriter of that request

kube == <<cluster, namespace, lastOp>>

run == <<runConfig, runResult>>

build == <<builder, lastSecrets, userTemplate, lastVault, buildResult>>

operator == <<mcpSecrets>>

vaultfs == <<vaultFs, vaultEnv>>

passwords == <<keyring, terminal, passwordResult>>

api == <<apiRequest, writer>>

rest == <<operator, vaultfs, passwords, api>>

outside == <<workers, kube, run, build, rest>>

pipeline ==
  <<policy, authMode, requestCounter, served, req, pc, claims, parsed, decision,
    evalFault, recordingFailed, spans, auditLog, backendResp, response, trace>>

vars == <<pipeline, outside>>

\* Everything request-scoped of the chain.
requestScoped ==
  <<served, req, pc, claims, parsed, decision, evalFault, recordingFailed, spans,
    auditLog, backendResp, response, trace>>

config == <<policy, authMode>>

\* Execution units that process requests at the same time.
Workers == {"u1", "u2", "u3"}

\* Requests each execution unit processes.
MaxPerWorker == 2

IdleWorkers == [w \in Workers |-> [stage |-> "idle", handled |-> 0, seen |-> 0]]

Namespaces == {"default", "team-a"}

NoOp == [op |-> "none"]

\* No secrets manager in use: an empty cluster and no call made.
KubeIdle ==
  /\ cluster = [ns \in Namespaces |-> <<>>]
  /\ namespace = "default"
  /\ lastOp = NoOp

NoContainerOptions == [isNil |-> TRUE, KubernetesSecrets |-> <<>>]

NoResult == [called |-> FALSE]

\* No RunConfig is being prepared.
RunIdle ==
  /\ runConfig = [EnvVars |-> <<>>, Secrets |-> <<>>, ContainerOptions |-> NoContainerOptions]
  /\ runResult = NoResult

EmptyPodTemplateSpec ==
  [ServiceAccountName |-> "", Containers |-> <<>>, Annotations |-> <<>>, Labels |-> {}]

NoTemplate == [isNil |-> TRUE, spec |-> EmptyPodTemplateSpec, shared |-> FALSE]

NoVaultCall == [called |-> FALSE]

NoBuild == [called |-> FALSE]

NoSecretsCall == [called |-> FALSE]

\* No pod template is being built.
BuildIdle ==
  /\ builder = EmptyPodTemplateSpec
  /\ lastSecrets = NoSecretsCall
  /\ userTemplate = NoTemplate
  /\ lastVault = NoVaultCall
  /\ buildResult = NoBuild

\* The operator generated no arguments.
OperatorIdle == mcpSecrets = <<>>

NoFs == [kind |-> "none"]

NoEnv == [called |-> FALSE]

\* No Vault secret file is being processed.
VaultFsIdle ==
  /\ vaultFs = NoFs
  /\ vaultEnv = NoEnv

NotStored == [found |-> FALSE, value |-> ""]

NoKeyring == [works |-> TRUE, stored |-> NotStored]

NoTerminal == [detached |-> FALSE, prompts |-> 0]

NoPassword == [called |-> FALSE]

\* Nobody asked for the secrets password.
PasswordsIdle ==
  /\ keyring = NoKeyring
  /\ terminal = NoTerminal
  /\ passwordResult = NoPassword

NoApiRequest == [method |-> "", route |-> "", pc |-> "idle", version |-> "", answered |-> 0]

NoWriter == [header |-> <<>>, wroteHeader |-> FALSE, status |-> 0, sent |-> <<>>, body |-> <<>>]

\* The version route serves no request.
ApiIdle ==
  /\ apiRequest = NoApiRequest
  /\ writer = NoWriter

RestIdle ==
  /\ OperatorIdle
  /\ VaultFsIdle
  /\ PasswordsIdle
  /\ ApiIdle

NoRequest == [httpMethod |-> "", contentType |-> "", sse |-> FALSE, body |-> NoBody]

Init ==
  /\ policy \in PolicySets
  /\ authMode \in AuthModes
  /\ requestCounter = 0
  /\ served = 0
  /\ req = NoRequest
  /\ pc = "idle"
  /\ claims = NoClaims
  /\ parsed = NoParsed
  /\ decision = NoDecision
  /\ evalFault = FALSE
  /\ recordingFailed = FALSE
  /\ spans = <<>>
  /\ auditLog = <<>>
  /\ backendResp = NoResponse
  /\ response = NoResponse
  /\ trace = <<>>
  /\ workers = IdleWorkers /\ RestIdle
  /\ KubeIdle
  /\ RunIdle
  /\ BuildIdle

\* A request arrives; everything request-scoped is created fresh.
Receive ==
  /\ pc \in {"idle", "end"}
  /\ served < MaxRequests
  /\ req' \in HttpRequests
  /\ served' = served + 1
  /\ pc' = Chain[1]
  /\ claims' = NoClaims
  /\ parsed' = NoParsed
  /\ decision' = NoDecision
  /\ evalFault' = FALSE
  /\ recordingFailed' = FALSE
  /\ spans' = <<>>
  /\ auditLog' = <<>>
  /\ backendResp' = NoResponse
  /\ response' = NoResponse
  /\ trace' = <<>>
  /\ UNCHANGED <<outside, config, requestCounter>>

\* Authentication middleware: adds the claims, or answers 401.
Authenticate ==
  /\ pc = "auth"
  /\ \E token \in Tokens :
       LET c == ResolveClaims(authMode, token) IN
         /\ claims' = c
         /\ pc' = AfterAuthentication(c)
         /\ response' = IF c.present THEN response ELSE UnauthorizedResponse
  /\ trace' = Append(trace, "auth")
  /\ UNCHANGED <<outside, config, recordingFailed, evalFault, requestCounter, served, req, parsed, decision, spans,
                 auditLog, backendResp>>

\* MCP parsing middleware: stores the parsed request, if any, and goes on.
Parse ==
  /\ pc = "parse"
  /\ parsed' = ParseMCPRequest(req)
  /\ pc' = NextStage("parse")
  /\ trace' = Append(trace, "parse")
  /\ UNCHANGED <<outside, config, recordingFailed, evalFault, requestCounter, served, req, claims, decision, spans,
                 auditLog, backendResp, response>>

\* Authorization middleware, on the way in: decides, and answers 403 on deny.
Authorize ==
  /\ pc = "authz"
  /\ \E fault \in BOOLEAN :
       LET d == Authorization(req, claims, parsed, policy, fault) IN
         /\ decision' = d
         /\ evalFault' = (fault /\ d.evaluated)
         /\ pc' = AfterDecision(d.outcome)
         /\ response' = IF d.outcome = "Deny" THEN ForbiddenResponse(parsed.id)
                        ELSE response
  /\ trace' = Append(trace, "authz")
  /\ UNCHANGED <<outside, config, recordingFailed, requestCounter, served, req, claims, parsed, spans,
                 auditLog, backendResp>>

\* Telemetry middleware, on the way in: creates the span; the span of an SSE
\* establishment is completed at once.
TelemetryEnter ==
  /\ pc = "telemetry"
  /\ spans' = Append(spans, [name |-> SpanName(req, parsed), ended |-> req.sse])
  /\ pc' = NextStage("telemetry")
  /\ trace' = Append(trace, "telemetry")
  /\ UNCHANGED <<outside, config, recordingFailed, evalFault, requestCounter, served, req, claims, parsed, decision,
                 auditLog, backendResp, response>>

\* Audit middleware, on the way in: an SSE establishment is logged at once.
AuditEnter ==
  /\ pc = "audit"
  /\ auditLog' = IF req.sse
                   THEN auditLog \o LoggedEvents(AuditEvent(req, claims, parsed, 200))
                   ELSE auditLog
  /\ \E ok \in BOOLEAN :
       /\ recordingFailed' = (recordingFailed \/ (req.sse /\ ~ok))
       /\ pc' = AfterRecording(ok \/ ~req.sse, NextStage("audit"))
  /\ trace' = IF req.sse THEN trace \o <<"audit", "audit.log">>
              ELSE Append(trace, "audit")
  /\ UNCHANGED <<outside, config, evalFault, requestCounter, served, req, claims, parsed, decision,
                 spans, backendResp, response>>

\* The MCP server handler.  Its answer goes to the client, or into the
\* ResponseFilteringWriter's buffer for a list operation.
Handle ==
  /\ pc = "backend"
  /\ \E resp \in BackendResponses(parsed.id) :
       /\ backendResp' = resp
       /\ response' = IF decision.outcome = "AllowFiltered" THEN response ELSE resp
  /\ pc' = ReturnTo("backend")
  /\ trace' = Append(trace, "backend")
  /\ UNCHANGED <<outside, config, recordingFailed, evalFault, requestCounter, served, req, claims, parsed, decision,
                 spans, auditLog>>

\* Audit middleware, on the way out: logs the event with its outcome.
AuditExit ==
  /\ pc = "audit.exit"
  /\ auditLog' = IF req.sse THEN auditLog
                 ELSE auditLog \o
                        LoggedEvents(AuditEvent(req, claims, parsed, backendResp.status))
  /\ \E ok \in BOOLEAN :
       /\ recordingFailed' = (recordingFailed \/ (~req.sse /\ ~ok))
       /\ pc' = AfterRecording(ok \/ req.sse, ReturnTo("audit"))
  /\ trace' = IF req.sse THEN trace ELSE Append(trace, "audit.log")
  /\ UNCHANGED <<outside, config, evalFault, requestCounter, served, req, claims, parsed, decision,
                 spans, backendResp, response>>

\* Telemetry middleware, on the way out: ends the span, counts the request.
TelemetryExit ==
  /\ pc = "telemetry.exit"
  /\ spans' = [i \in 1..Len(spans) |-> [spans[i] EXCEPT !.ended = TRUE]]
  /\ requestCounter' = requestCounter + 1
  /\ \E ok \in BOOLEAN :
       /\ recordingFailed' = (recordingFailed \/ ~ok)
       /\ pc' = AfterRecording(ok, ReturnTo("telemetry"))
  /\ trace' = Append(trace, "telemetry.end")
  /\ UNCHANGED <<outside, config, evalFault, served, req, claims, parsed, decision, auditLog,
                 backendResp, response>>

\* Authorization middleware, on the way out: filters the buffered response of
\* a list operation and writes it to the client.
AuthzExit ==
  /\ pc = "authz.exit"
  /\ IF decision.outcome = "AllowFiltered"
       THEN \E faulty \in SUBSET Items :
              LET fo == MCPMethodToFeatureOperation(parsed.method)
                  keep == {i \in Items : ItemAccessible(policy, claims, fo, i, faulty)}
              IN /\ response' = FilterResponse(backendResp, keep)
                 /\ trace' = Append(trace, "filter")
       ELSE UNCHANGED <<response, trace>>
  /\ pc' = ReturnTo("authz")
  /\ UNCHANGED <<outside, config, recordingFailed, evalFault, requestCounter, served, req, claims, parsed, decision,
                 spans, auditLog, backendResp>>

Next ==
  \/ Receive
  \/ Authenticate
  \/ Parse
  \/ Authorize
  \/ TelemetryEnter
  \/ AuditEnter
  \/ Handle
  \/ AuditExit
  \/ TelemetryExit
  \/ AuthzExit

Spec == Init /\ [][Next]_vars

\* =========================================================== properties
InTrace(step) == \E i \in 1..Len(trace) : trace[i] = step

Position(step) == CHOOSE i \in 1..Len(trace) : trace[i] = step

Ended == pc = "end"

\* The request passed the authorization middleware (it was not rejected with
\* 401 by authentication nor with 403 by authorization).
PassedAuthorization == decision.outcome \in {"Allow", "AllowFiltered"}

C2_DenyNeverHandled ==
  decision.outcome = "Deny" =>
    /\ ~InTrace("backend")
    /\ backendResp = NoResponse
    /\ pc = "end"

\* C2 witness: a request the policy set does not permit has ended with the
\* 403 JSON-RPC error and without the backend.
C2_Witness ==
  /\ Ended
  /\ decision.outcome = "Deny"
  /\ decision.evaluated
  /\ ~evalFault
  /\ response.status = 403
  /\ response.id = parsed.id

\* The list xs is a sub-sequence of ys: its items are items of ys, taken in
\* the order they have in ys, none used twice.
IsSubSequence(xs, ys) ==
  \E f \in [1..Len(xs) -> 1..Len(ys)] :
    /\ \A i \in 1..Len(xs) : xs[i] = ys[f[i]]
    /\ \A i, j \in 1..Len(xs) : i < j => f[i] < f[j]

ListedFeature(method) ==
  CASE method = "tools/list" -> "tool"
    [] method = "prompts/list" -> "prompt"
    [] method = "resources/list" -> "resource"

FilteredList ==
  /\ Ended
  /\ decision.outcome = "AllowFiltered"
  /\ backendResp.kind = "result"

\* C3: the list the caller of a list operation receives is a sub-sequence of
\* the list the backend returned, and each of its items is one the policy set
\* permits the principal to list.
C3_FilteredIsSubSequence ==
  FilteredList =>
    /\ response.kind = "result"
    /\ IsSubSequence(response.items, backendResp.items)
    /\ \A i \in 1..Len(response.items) :
         <<claims.sub, ListedFeature(parsed.method), "list", response.items[i]>> \in policy

\* C3 witness: a two-item list of which the caller receives one item.
C3_Witness ==
  /\ FilteredList
  /\ Len(backendResp.items) = 2
  /\ backendResp.items[1] # backendResp.items[2]
  /\ response.items = <<backendResp.items[2]>>

MappedMethods ==
  {"tools/call", "tools/list", "prompts/get", "prompts/list", "resources/read",
   "resources/list"}

UnmappedMethods == Methods \ (MappedMethods \cup {"ping", "progress/update", "initialize"})

\* C4: a parsed method that is neither on the skip list nor mapped to a
\* (feature, operation) pair is denied whatever the principal and the policy
\* set, and the backend handler does not run for it.
C4_UnmappedDenied ==
  InTrace("authz") /\ parsed.present /\ parsed.method \in UnmappedMethods =>
    /\ decision.outcome = "Deny"
    /\ ~InTrace("backend")
    /\ response.status = 403

\* C4 witness: an unknown method, captured by name only, has been denied.
C4_Witness ==
  /\ Ended
  /\ parsed.present
  /\ parsed.method = "foo/bar"
  /\ parsed.resourceID = ""
  /\ policy = MixedPolicy
  /\ decision.outcome = "Deny"

\* C5: when policy evaluation raises an error for a request the decision is
\* Deny and the backend handler does not run.
C5_EvaluationFaultDenies ==
  evalFault =>
    /\ decision.outcome = "Deny"
    /\ ~InTrace("backend")
    /\ response.status = 403

\* C5 witness: evaluation failed for a request the policy set permits, and
\* the request has ended denied.
C5_Witness ==
  /\ Ended
  /\ evalFault
  /\ parsed.method = "tools/call"
  /\ <<claims.sub, "tool", "call", parsed.resourceID>> \in policy
  /\ decision.outcome = "Deny"

\* Requests for which authorization is skipped: the three control methods,
\* and whatever is not a POST with JSON content (the SSE establishment too).
SkippedRequest ==
  \/ parsed.present /\ parsed.method \in {"ping", "progress/update", "initialize"}
  \/ req.httpMethod # "POST"
  \/ req.contentType # "json"
  \/ req.sse

\* C6: for a skipped request the authorization middleware builds no entity
\* and does not consult the policy set; the request is allowed, whatever the
\* policy set, and ends having reached the backend.
C6_SkipBeforePolicyLookup ==
  InTrace("authz") /\ SkippedRequest =>
    /\ decision.outcome = "Allow"
    /\ ~decision.evaluated
    /\ ~evalFault
    /\ pc # "end" \/ InTrace("backend")

\* C6 witness: a ping has reached the backend under the policy set that
\* permits nothing.
C6_Witness ==
  /\ Ended
  /\ policy = PermitNothing
  /\ parsed.method = "ping"
  /\ InTrace("backend")
  /\ response.status = 200

StageOrder == <<"auth", "parse", "authz", "telemetry", "audit", "backend", "filter">>

IsStage(step) == \E k \in 1..Len(StageOrder) : StageOrder[k] = step

Rank(step) == CHOOSE k \in 1..Len(StageOrder) : StageOrder[k] = step

C8_AuthenticationFailureEndsChain ==
  InTrace("auth") /\ ~claims.present =>
    /\ pc = "end"
    /\ trace = <<"auth">>
    /\ response.status = 401
    /\ response.header = "WWW-Authenticate: Bearer realm=issuer"
    /\ parsed = NoParsed
    /\ decision = NoDecision
    /\ backendResp = NoResponse

\* C8 witness: a POST carrying a well-formed tools/call and a bad token has
\* ended with 401.
C8_Witness ==
  /\ Ended
  /\ authMode = "jwt"
  /\ req.body.method = "tools/call"
  /\ ~claims.present
  /\ response.status = 401

MalformedJSONPost ==
  req.httpMethod = "POST" /\ req.contentType = "json" /\ ~req.body.wellFormed

ListRequest ==
  parsed.present /\ parsed.method \in {"tools/list", "prompts/list", "resources/list"}

\* C10: a list operation is decided AllowFiltered whatever the principal and
\* the policy set; it is never denied, it ends having reached the backend and
\* then the response filter, and nothing is written to the caller before the
\* filter has run.
C10_ListAlwaysFiltered ==
  ListRequest /\ InTrace("authz") =>
    /\ decision.outcome = "AllowFiltered"
    /\ response.status # 403
    /\ Ended =>
         /\ InTrace("backend") /\ InTrace("filter")
         /\ Position("backend") < Position("filter")
    /\ response # NoResponse => InTrace("filter")

\* C10 witness: under the policy set that permits nothing a prompts/list has
\* ended with every item of the backend's list filtered out.
C10_Witness ==
  /\ Ended
  /\ policy = PermitNothing
  /\ parsed.method = "prompts/list"
  /\ Len(backendResp.items) = 2
  /\ response.kind = "result"
  /\ response.items = <<>>

\* C12: when the backend's answer to a list operation is no list-shaped
\* result, the caller receives it unmodified; a list-shaped result keeps
\* everything but its items.
C12_NonListPassesUnmodified ==
  Ended /\ decision.outcome = "AllowFiltered" =>
    /\ backendResp.kind # "result" => response = backendResp
    /\ backendResp.kind = "result" =>
         response = [backendResp EXCEPT !.items = response.items]

\* C12 witness: under the policy set that permits nothing the backend's
\* JSON-RPC error object has reached the caller of a list operation.
C12_Witness ==
  /\ Ended
  /\ decision.outcome = "AllowFiltered"
  /\ policy = PermitNothing
  /\ backendResp.kind = "error"
  /\ response = backendResp
  /\ InTrace("filter")

\* C13: a failed audit or telemetry emission does not stop the request and
\* does not change what the caller receives: the request goes on to End and
\* ends with the backend's answer (filtered for a list operation).
C13_RecordingFailureSwallowed ==
  recordingFailed =>
    /\ PassedAuthorization
    /\ response.status \notin {401, 403}
    /\ pc # "end" => ENABLED Next
    /\ Ended =>
         /\ InTrace("telemetry.end")
         /\ response # NoResponse
         /\ response.status = backendResp.status
         /\ decision.outcome = "Allow" => response = backendResp
         /\ decision.outcome = "AllowFiltered" => InTrace("filter")

\* C13 witness: the audit sink failed for a list request, which has ended
\* with its filtered list.
C13_Witness ==
  /\ Ended
  /\ recordingFailed
  /\ decision.outcome = "AllowFiltered"
  /\ Len(backendResp.items) = 2
  /\ Len(response.items) = 1

\* ================================================= telemetry counters

\* The chain at rest, under one configuration.
PipelineIdle ==
  /\ policy = PermitNothing
  /\ authMode = "jwt"
  /\ requestCounter = 0
  /\ served = 0
  /\ req = NoRequest
  /\ pc = "idle"
  /\ claims = NoClaims
  /\ parsed = NoParsed
  /\ decision = NoDecision
  /\ evalFault = FALSE
  /\ recordingFailed = FALSE
  /\ spans = <<>>
  /\ auditLog = <<>>
  /\ backendResp = NoResponse
  /\ response = NoResponse
  /\ trace = <<>>

\* Faulty variant: a read-modify-write on the value the unit saw on entry.
CounterAddFromSnapshot(current, seen) == seen + 1

\* The request counter after one unit recorded its request: an atomic add on
\* the current value, whatever the unit saw of the counter before.
CounterAdd(current, seen) == current + 1

\* A unit's request enters the telemetry middleware.
WorkerEnter(w) ==
  /\ workers[w].stage = "idle"
  /\ workers[w].handled < MaxPerWorker
  /\ workers' = [workers EXCEPT ![w].stage = "telemetry", ![w].seen = requestCounter]
  /\ UNCHANGED <<config, requestScoped, requestCounter, kube, run, build, rest>>

\* The handler returned; the unit records the request in the shared counter.
WorkerRecord(w) ==
  /\ workers[w].stage = "telemetry"
  /\ requestCounter' = CounterAdd(requestCounter, workers[w].seen)
  /\ workers' = [workers EXCEPT ![w].stage = "recorded"]
  /\ UNCHANGED <<config, requestScoped, kube, run, build, rest>>

\* The unit's request leaves the chain.
WorkerLeave(w) ==
  /\ workers[w].stage = "recorded"
  /\ workers' = [workers EXCEPT ![w] = [stage |-> "idle", handled |-> @.handled + 1, seen |-> 0]]
  /\ UNCHANGED <<config, requestScoped, requestCounter, kube, run, build, rest>>

Enter == \E w \in Workers : WorkerEnter(w)

Record == \E w \in Workers : WorkerRecord(w)

Leave == \E w \in Workers : WorkerLeave(w)

NextCounters ==
  \/ Enter
  \/ Record
  \/ Leave

InitCounters == PipelineIdle /\ workers = IdleWorkers /\ RestIdle /\ KubeIdle /\ RunIdle /\ BuildIdle

SpecCounters == InitCounters /\ [][NextCounters]_vars

RECURSIVE SumOver(_, _)
SumOver(f, S) ==
  IF S = {} THEN 0
  ELSE LET x == CHOOSE y \in S : TRUE IN f[x] + SumOver(f, S \ {x})

\* Requests each unit has recorded so far.
Recorded == [w \in Workers |-> workers[w].handled + IF workers[w].stage = "recorded" THEN 1 ELSE 0]

\* C14: the process-wide request counter is safe under concurrent requests:
\* its value is always exactly the number of requests recorded by all units
\* (no increment is lost), and no step ever decreases or resets it.
C14_CounterKeepsEveryIncrement ==
  /\ [](requestCounter = SumOver(Recorded, Workers))
  /\ [][requestCounter' >= requestCounter]_vars

\* Two units entered on the same counter value and both recorded.
C14_Witness ==
  \E a, b \in Workers :
    /\ a # b
    /\ workers[a].stage = "recorded" /\ workers[b].stage = "recorded"
    /\ workers[a].seen = workers[b].seen
    /\ requestCounter >= workers[a].seen + 2

\* ================================================= Kubernetes secrets

\* Longest secret name passed to the manager, in characters.
MaxNameLen == 3

\* Most secrets the cluster holds, over all namespaces.
MaxSecrets == 2

\* A name is a sequence of characters.
Chars == {"a", "b", "/"}

Names == UNION {[1..n -> Chars] : n \in 0..MaxNameLen}

SecretNames == {<<"a">>, <<"b">>}

Keys == {<<"a">>, <<"b">>}

\* Every stored value is distinct, so a value tells which namespace, secret
\* and key it was stored under.
StoredValue(ns, secretName, key) == <<ns, secretName, key>>

\* How the cluster is laid out: per namespace, the secrets that exist and the
\* keys of each.
Layouts == [Namespaces -> UNION {[D -> SUBSET Keys] : D \in SUBSET SecretNames}]

ClusterOf(layout) ==
  [ns \in Namespaces |->
    [s \in DOMAIN layout[ns] |->
      [k \in layout[ns][s] |-> StoredValue(ns, s, k)]]]

RECURSIVE SecretCount(_, _)
SecretCount(layout, nss) ==
  IF nss = {} THEN 0
  ELSE LET ns == CHOOSE x \in nss : TRUE
       IN Cardinality(DOMAIN layout[ns]) + SecretCount(layout, nss \ {ns})

Clusters == {ClusterOf(l) : l \in {x \in Layouts : SecretCount(x, Namespaces) <= MaxSecrets}}

\* The manager's namespace: TOOLHIVE_NAMESPACE, else the service account's
\* namespace file, else "default".
NewKubernetesManager(env, file) ==
  IF env # "" THEN env ELSE IF file # "" THEN file ELSE "default"

NoValue == ""

NoError == "nil"

ErrKubernetesReadOnly == "Kubernetes secrets manager is read-only"

ErrEmptyName == "secret name cannot be empty"

\* Index of the first "/" of a name, 0 when it has none.
FirstSlash(name) ==
  IF \E i \in 1..Len(name) : name[i] = "/"
    THEN CHOOSE i \in 1..Len(name) : name[i] = "/" /\ \A j \in 1..(i - 1) : name[j] # "/"
    ELSE 0

\* strings.SplitN(name, "/", 2): cut at the first "/", if any.
SplitN(name) ==
  LET i == FirstSlash(name)
  IN IF i = 0 THEN <<name>>
     ELSE <<SubSeq(name, 1, i - 1), SubSeq(name, i + 1, Len(name))>>

\* Faulty variant: the secret is looked up wherever it exists.
ClientGetAnyNamespace(c, ns, secretName, apiFails) ==
  IF apiFails \/ \A n \in Namespaces : secretName \notin DOMAIN c[n]
    THEN [err |-> "not found", data |-> <<>>]
    ELSE LET n == CHOOSE n \in Namespaces :
                    /\ secretName \in DOMAIN c[n]
                    /\ (secretName \in DOMAIN c[ns] => n = ns)
                    /\ (secretName \notin DOMAIN c[ns] => n # ns)
         IN [err |-> NoError, data |-> c[n][secretName]]

\* client.Get of the secret with that namespace and name.
ClientGet(c, ns, secretName, apiFails) ==
  IF apiFails \/ secretName \notin DOMAIN c[ns]
    THEN [err |-> "not found", data |-> <<>>]
    ELSE [err |-> NoError, data |-> c[ns][secretName]]

\* Faulty variant: a missing key reads as the zero value.
KeyLookupZeroValue(data, key) ==
  IF key \in DOMAIN data
    THEN [value |-> data[key], err |-> NoError]
    ELSE [value |-> NoValue, err |-> NoError]

\* secret.Data[key]
KeyLookup(data, key) ==
  IF key \in DOMAIN data
    THEN [value |-> data[key], err |-> NoError]
    ELSE [value |-> NoValue, err |-> "key not found in secret"]

GetSecret(c, ns, name, apiFails) ==
  IF name = <<>> THEN [value |-> NoValue, err |-> ErrEmptyName]
  ELSE LET parts == SplitN(name)
       IN IF Len(parts) # 2
            THEN [value |-> NoValue, err |-> "invalid secret format"]
          ELSE IF parts[1] = <<>> \/ parts[2] = <<>>
            THEN [value |-> NoValue, err |-> "secret name and key cannot be empty"]
          ELSE LET secret == ClientGet(c, ns, parts[1], apiFails)
               IN IF secret.err # NoError
                    THEN [value |-> NoValue, err |-> "failed to get secret"]
                    ELSE KeyLookup(secret.data, parts[2])

\* Faulty variant: the name is not checked.
SetSecretNoNameCheck(name) == ErrKubernetesReadOnly

SetSecret(name) == IF name = <<>> THEN ErrEmptyName ELSE ErrKubernetesReadOnly

DeleteSecret(name) == IF name = <<>> THEN ErrEmptyName ELSE ErrKubernetesReadOnly

\* client.List in the namespace, then one description per key of each
\* secret; the order of the descriptions is not fixed.
ListSecrets(c, ns, apiFails) ==
  IF apiFails THEN [list |-> {}, err |-> "failed to list secrets"]
  ELSE [list |-> {[Key |-> s \o <<"/">> \o k, Description |-> <<k, s>>] :
                    <<s, k>> \in {x \in SecretNames \X Keys :
                                    x[1] \in DOMAIN c[ns] /\ x[2] \in DOMAIN c[ns][x[1]]}},
        err |-> NoError]

Cleanup == NoError

Capabilities ==
  [CanRead |-> TRUE, CanWrite |-> FALSE, CanDelete |-> FALSE, CanList |-> TRUE,
   CanCleanup |-> FALSE]

EncryptedType == "encrypted"

OnePasswordType == "1password"

NoneType == "none"

ErrUnknownManagerType == "unknown secret manager type"

ErrKeyringNotAvailable == "OS keyring is not available"

\* Provider types a caller may ask for.
ManagerTypes == {EncryptedType, OnePasswordType, NoneType, "kubernetes", "vault", ""}

NoProvider == "nil"

\* What a provider's constructor returns: the provider, or its error.
Constructed(provider, ok) ==
  IF ok THEN [provider |-> provider, err |-> NoError]
  ELSE [provider |-> NoProvider, err |-> "failed to create provider"]

\* The switch on the manager type: encrypted (needs the OS keyring and the
\* secrets password), 1password, none; every other type is unknown.
CreateSecretProvider(managerType, keyringAvailable, passwordOk, constructorOk) ==
  CASE managerType = EncryptedType ->
         IF ~keyringAvailable THEN [provider |-> NoProvider, err |-> ErrKeyringNotAvailable]
         ELSE IF ~passwordOk
           THEN [provider |-> NoProvider, err |-> "failed to get secrets password"]
           ELSE Constructed("EncryptedManager", constructorOk)
    [] managerType = OnePasswordType -> Constructed("OnePasswordManager", constructorOk)
    [] managerType = NoneType -> Constructed("NoneManager", constructorOk)
    [] OTHER -> [provider |-> NoProvider, err |-> ErrUnknownManagerType]

\* Values of TOOLHIVE_NAMESPACE and of the service account's namespace file.
EnvNamespaces == {"", "team-a"}

FileNamespaces == {"", "default", "team-a"}

exceptKube == <<pipeline, workers, run, build, rest>>

GetSecretCall ==
  \E name \in Names, apiFails \in BOOLEAN :
    LET r == GetSecret(cluster, namespace, name, apiFails)
    IN /\ lastOp = NoOp
       /\ lastOp' = [op |-> "GetSecret", name |-> name, apiFailed |-> apiFails,
                     value |-> r.value, err |-> r.err]
       /\ UNCHANGED <<cluster, namespace, exceptKube>>

SetSecretCall ==
  \E name \in Names :
    /\ lastOp = NoOp
    /\ lastOp' = [op |-> "SetSecret", name |-> name, err |-> SetSecret(name)]
    /\ UNCHANGED <<cluster, namespace, exceptKube>>

DeleteSecretCall ==
  \E name \in Names :
    /\ lastOp = NoOp
    /\ lastOp' = [op |-> "DeleteSecret", name |-> name, err |-> DeleteSecret(name)]
    /\ UNCHANGED <<cluster, namespace, exceptKube>>

ListSecretsCall ==
  \E apiFails \in BOOLEAN :
    LET r == ListSecrets(cluster, namespace, apiFails)
    IN /\ lastOp = NoOp
       /\ lastOp' = [op |-> "ListSecrets", apiFailed |-> apiFails, list |-> r.list,
                     err |-> r.err]
       /\ UNCHANGED <<cluster, namespace, exceptKube>>

CleanupCall ==
  /\ lastOp = NoOp
  /\ lastOp' = [op |-> "Cleanup", err |-> Cleanup]
  /\ UNCHANGED <<cluster, namespace, exceptKube>>

CapabilitiesCall ==
  /\ lastOp = NoOp
  /\ lastOp' = [op |-> "Capabilities", caps |-> Capabilities]
  /\ UNCHANGED <<cluster, namespace, exceptKube>>

CreateSecretProviderCall ==
  \E managerType \in ManagerTypes, keyringAvailable, passwordOk, constructorOk \in BOOLEAN :
    LET r == CreateSecretProvider(managerType, keyringAvailable, passwordOk, constructorOk)
    IN /\ lastOp = NoOp
       /\ lastOp' = [op |-> "CreateSecretProvider", managerType |-> managerType,
                     provider |-> r.provider, err |-> r.err]
       /\ UNCHANGED <<cluster, namespace, exceptKube>>

\* The caller has taken the result; the next call can be made.
Return ==
  /\ lastOp # NoOp
  /\ lastOp' = NoOp
  /\ UNCHANGED <<cluster, namespace, exceptKube>>

NextSecrets ==
  \/ GetSecretCall
  \/ SetSecretCall
  \/ DeleteSecretCall
  \/ ListSecretsCall
  \/ CleanupCall
  \/ CapabilitiesCall
  \/ CreateSecretProviderCall
  \/ Return

InitSecrets ==
  /\ PipelineIdle
  /\ workers = IdleWorkers /\ RestIdle
  /\ cluster \in Clusters
  /\ namespace \in {NewKubernetesManager(e, f) : e \in EnvNamespaces, f \in FileNamespaces}
  /\ lastOp = NoOp
  /\ RunIdle
  /\ BuildIdle

SpecSecrets == InitSecrets /\ [][NextSecrets]_vars

\* C15: the manager is read-only. SetSecret and DeleteSecret return
\* ErrKubernetesReadOnly for a non-empty name and the empty-name error for an
\* empty one, Capabilities reports neither write nor delete, and no call
\* changes the secrets stored in the cluster.
C15_ManagerIsReadOnly ==
  /\ [](/\ lastOp.op \in {"SetSecret", "DeleteSecret"} =>
             lastOp.err = IF Len(lastOp.name) = 0 THEN ErrEmptyName
                          ELSE ErrKubernetesReadOnly
        /\ lastOp.op = "Capabilities" =>
             ~lastOp.caps.CanWrite /\ ~lastOp.caps.CanDelete)
  /\ [][cluster' = cluster]_vars

\* A write to a secret that exists was refused.
C15_Witness ==
  /\ lastOp.op = "SetSecret"
  /\ lastOp.name = <<"a", "/", "a">>
  /\ lastOp.err = ErrKubernetesReadOnly
  /\ <<"a">> \in DOMAIN cluster[namespace]
  /\ cluster[namespace][<<"a">>] = [k \in {<<"a">>} |-> StoredValue(namespace, <<"a">>, <<"a">>)]

\* The <secret-name>/<key> reading of a name: the pairs <<s, k>> with
\* name = s/k and no "/" in s (at most one).
NamedParts(name) ==
  {<<SubSeq(name, 1, i - 1), SubSeq(name, i + 1, Len(name))>> :
     i \in {j \in 1..Len(name) : name[j] = "/" /\ \A h \in 1..(j - 1) : name[h] # "/"}}

\* The Key of every key of every secret of one namespace's contents.
KeysListed(contents) ==
  UNION {{s \o <<"/">> \o k : k \in DOMAIN contents[s]} : s \in DOMAIN contents}

\* C16: a manager configured for namespace N reads only N. A value GetSecret
\* returns for s/k is the one stored in N, also when s exists elsewhere; when
\* s is not in N the call fails, also when s exists elsewhere; ListSecrets
\* lists the keys of N's secrets and nothing else; and neither result changes
\* when the contents of the other namespaces do.
C16_NamespaceIsolation ==
  LET own == cluster[namespace]
  IN /\ lastOp.op = "GetSecret" =>
          /\ \A p \in NamedParts(lastOp.name) :
               /\ p[1] \in DOMAIN own /\ p[2] \in DOMAIN own[p[1]] /\ ~lastOp.apiFailed =>
                    lastOp.err = NoError /\ lastOp.value = own[p[1]][p[2]]
               /\ p[1] \notin DOMAIN own =>
                    lastOp.err # NoError /\ lastOp.value = NoValue
          /\ lastOp.err = NoError => lastOp.value[1] = namespace
          /\ \A other \in Clusters :
               other[namespace] = own =>
                 LET r == GetSecret(other, namespace, lastOp.name, lastOp.apiFailed)
                 IN r.value = lastOp.value /\ r.err = lastOp.err
     /\ lastOp.op = "ListSecrets" =>
          /\ lastOp.err = NoError => {d.Key : d \in lastOp.list} = KeysListed(own)
          /\ lastOp.err # NoError => lastOp.list = {}
          /\ \A other \in Clusters :
               other[namespace] = own =>
                 LET r == ListSecrets(other, namespace, lastOp.apiFailed)
                 IN r.list = lastOp.list /\ r.err = lastOp.err

\* The secret exists in both namespaces with the same key and the manager
\* returned its own namespace's value.
C16_Witness ==
  /\ lastOp.op = "GetSecret"
  /\ lastOp.name = <<"a", "/", "b">>
  /\ \A ns \in Namespaces :
       <<"a">> \in DOMAIN cluster[ns] /\ <<"b">> \in DOMAIN cluster[ns][<<"a">>]
  /\ namespace = "team-a"
  /\ lastOp.value = StoredValue("team-a", <<"a">>, <<"b">>)
  /\ lastOp.err = NoError

\* C17 as stated: GetSecret fails, with the empty string, exactly when the
\* name is empty, has no "/", has an empty secret or key part, or names a
\* secret or key that is absent from the manager's namespace; otherwise it
\* returns the stored value and no error.
C17_FailsOnlyOnBadNameOrAbsence ==
  lastOp.op = "GetSecret" =>
    LET own == cluster[namespace]
        parts == NamedParts(lastOp.name)
        found == {p \in parts : /\ p[1] # <<>> /\ p[2] # <<>>
                                /\ p[1] \in DOMAIN own /\ p[2] \in DOMAIN own[p[1]]}
    IN /\ found = {} => lastOp.err # NoError /\ lastOp.value = NoValue
       /\ \A p \in found : lastOp.err = NoError /\ lastOp.value = own[p[1]][p[2]]

\* C17: GetSecret fails, with the empty string, when the name is empty, has
\* no "/", has an empty secret or key part, names a secret or key that is
\* absent from the manager's namespace, or when the secret cannot be fetched
\* from the cluster; otherwise it returns the stored value and no error.
C17_FailsOnBadNameAbsenceOrFetchError ==
  lastOp.op = "GetSecret" =>
    LET own == cluster[namespace]
        parts == NamedParts(lastOp.name)
        found == {p \in parts : /\ p[1] # <<>> /\ p[2] # <<>>
                                /\ p[1] \in DOMAIN own /\ p[2] \in DOMAIN own[p[1]]}
    IN /\ found = {} \/ lastOp.apiFailed => lastOp.err # NoError /\ lastOp.value = NoValue
       /\ ~lastOp.apiFailed =>
            \A p \in found : lastOp.err = NoError /\ lastOp.value = own[p[1]][p[2]]

\* The key is absent from a secret that exists, and the call failed.
C17_Witness ==
  /\ lastOp.op = "GetSecret"
  /\ lastOp.name = <<"b", "/", "a">>
  /\ ~lastOp.apiFailed
  /\ <<"b">> \in DOMAIN cluster[namespace]
  /\ <<"a">> \notin DOMAIN cluster[namespace][<<"b">>]
  /\ lastOp.err = "key not found in secret"
  /\ lastOp.value = NoValue

\* C18 as stated: CreateSecretProvider recognises the type "kubernetes": it
\* returns a provider and no error for it, and ErrUnknownManagerType (with no
\* provider) only for a type other than encrypted, 1password, none and
\* kubernetes.
C18_KubernetesTypeRecognised ==
  lastOp.op = "CreateSecretProvider" =>
    /\ lastOp.managerType = "kubernetes" =>
         lastOp.provider # NoProvider /\ lastOp.err = NoError
    /\ lastOp.err = ErrUnknownManagerType =>
         /\ lastOp.provider = NoProvider
         /\ lastOp.managerType \notin {EncryptedType, OnePasswordType, NoneType, "kubernetes"}

\* ================================================= RunConfig.WithSecrets

\* Most secret parameters of a RunConfig.
MaxParams == 2

\* Most entries ContainerOptions.KubernetesSecrets grows to.
MaxKubernetesSecrets == 3

\* The separator between the secret reference and the target, one token.
TargetSep == ",target="

NameParts == {<<>>, <<"n">>}

KeyParts == {<<"k">>, <<"k", "/", "k">>}

TargetParts == {<<>>, <<"e">>, <<"e", TargetSep, "e">>}

\* Secret parameters: a name, a key and a target, each separator present or
\* missing.
Params ==
  {n \o s1 \o k \o s2 \o e :
     n \in NameParts, s1 \in {<<>>, <<"/">>}, k \in KeyParts,
     s2 \in {<<>>, <<TargetSep>>}, e \in TargetParts}

SecretLists == UNION {[1..n -> Params] : n \in 0..MaxParams}

\* strings.Split(s, sep): the pieces of s between the occurrences of sep.
RECURSIVE Split(_, _)
Split(s, sep) ==
  IF \E i \in 1..Len(s) : s[i] = sep
    THEN LET i == CHOOSE i \in 1..Len(s) : s[i] = sep /\ \A j \in 1..(i - 1) : s[j] # sep
         IN <<SubSeq(s, 1, i - 1)>> \o Split(SubSeq(s, i + 1, Len(s)), sep)
    ELSE <<s>>

NewDeployWorkloadOptions == [isNil |-> FALSE, KubernetesSecrets |-> <<>>]

\* Faulty variant: name and key change places.
KubernetesSecretSwapped(secretParts, targetEnvName) ==
  [Name |-> secretParts[2], Key |-> secretParts[1], TargetEnvName |-> targetEnvName]

KubernetesSecret(secretParts, targetEnvName) ==
  [Name |-> secretParts[1], Key |-> secretParts[2], TargetEnvName |-> targetEnvName]

\* The loop over c.Secrets: every parameter is parsed and appended; the first
\* one that does not parse ends the loop with an error, keeping what was
\* appended before.
RECURSIVE AppendKubernetesSecrets(_, _)
AppendKubernetesSecrets(kubernetesSecrets, secretParams) ==
  IF secretParams = <<>> THEN [KubernetesSecrets |-> kubernetesSecrets, err |-> NoError]
  ELSE LET parts == Split(Head(secretParams), TargetSep)
       IN IF Len(parts) # 2
            THEN [KubernetesSecrets |-> kubernetesSecrets, err |-> "invalid secret format"]
          ELSE LET secretParts == SplitN(parts[1])
               IN IF Len(secretParts) # 2
                    THEN [KubernetesSecrets |-> kubernetesSecrets,
                          err |-> "invalid secret reference"]
                    ELSE AppendKubernetesSecrets(
                           Append(kubernetesSecrets, KubernetesSecret(secretParts, parts[2])),
                           Tail(secretParams))

\* c.withKubernetesSecrets(): the config after the call and the error.
withKubernetesSecrets(c) ==
  LET options == IF c.ContainerOptions.isNil THEN NewDeployWorkloadOptions
                 ELSE c.ContainerOptions
      r == AppendKubernetesSecrets(options.KubernetesSecrets, c.Secrets)
  IN [config |-> [c EXCEPT !.ContainerOptions =
                              [options EXCEPT !.KubernetesSecrets = r.KubernetesSecrets]],
      err |-> r.err]

\* c.WithSecrets(ctx, secretManager, "kubernetes"): nothing to do without
\* secrets, else the kubernetes flow.
WithSecrets(c) ==
  IF Len(c.Secrets) = 0 THEN [config |-> c, err |-> NoError]
  ELSE withKubernetesSecrets(c)

ExistingEnvVars == [EXISTING |-> "value"]

ExistingKubernetesSecret == [Name |-> "old", Key |-> "old", TargetEnvName |-> "OLD"]

ContainerOptionsBefore ==
  {NoContainerOptions, NewDeployWorkloadOptions,
   [isNil |-> FALSE, KubernetesSecrets |-> <<ExistingKubernetesSecret>>]}

exceptRun == <<pipeline, workers, kube, build, rest>>

\* RunConfig.WithSecrets with provider type "kubernetes": the receiver is
\* updated in place and returned.
WithSecretsCall ==
  /\ ~runResult.called
  /\ Len(runConfig.ContainerOptions.KubernetesSecrets) + Len(runConfig.Secrets)
       <= MaxKubernetesSecrets
  /\ LET r == WithSecrets(runConfig)
     IN /\ runConfig' = r.config
        /\ runResult' = [called |-> TRUE, providerType |-> "kubernetes",
                         returned |-> "receiver", err |-> r.err]
  /\ UNCHANGED exceptRun

\* The caller has taken the result.
WithSecretsReturn ==
  /\ runResult.called
  /\ runResult' = NoResult
  /\ UNCHANGED <<runConfig, exceptRun>>

NextRun ==
  \/ WithSecretsCall
  \/ WithSecretsReturn

InitRun ==
  /\ PipelineIdle
  /\ workers = IdleWorkers /\ RestIdle
  /\ KubeIdle
  /\ BuildIdle
  /\ runConfig \in [EnvVars : {ExistingEnvVars}, Secrets : SecretLists,
                    ContainerOptions : ContainerOptionsBefore]
  /\ runResult = NoResult

SpecRun == InitRun /\ [][NextRun]_vars

\* The readings of a parameter as <name>/<key>,target=<env>: name, key and
\* env non-empty, no separator inside name or env, no target separator
\* inside key (at most one reading).
ParamReadings(param) ==
  {[Name |-> SubSeq(param, 1, i - 1), Key |-> SubSeq(param, i + 1, j - 1),
    TargetEnvName |-> SubSeq(param, j + 1, Len(param))] :
     <<i, j>> \in {x \in (1..Len(param)) \X (1..Len(param)) :
                     /\ 1 < x[1] /\ x[1] + 1 < x[2] /\ x[2] < Len(param)
                     /\ param[x[1]] = "/" /\ param[x[2]] = TargetSep
                     /\ \A h \in 1..(x[1] - 1) : param[h] \notin {"/", TargetSep}
                     /\ \A h \in (x[1] + 1)..(x[2] - 1) : param[h] # TargetSep
                     /\ \A h \in (x[2] + 1)..Len(param) : param[h] \notin {"/", TargetSep}}}

\* A WithSecrets call has just returned.
WithSecretsReturned == ~runResult.called /\ runResult'.called

\* What C19 says of every call: the receiver is returned, EnvVars and Secrets
\* are as before, and when every parameter reads as <name>/<key>,target=<env>
\* the call succeeds and appends exactly one entry per parameter, in order.
OneEntryPerParameter ==
  LET before == runConfig.ContainerOptions.KubernetesSecrets
      after == runConfig'.ContainerOptions.KubernetesSecrets
      params == runConfig.Secrets
  IN /\ runResult'.returned = "receiver"
     /\ runConfig'.EnvVars = runConfig.EnvVars
     /\ runConfig'.Secrets = params
     /\ (\A i \in 1..Len(params) : ParamReadings(params[i]) # {}) =>
          /\ runResult'.err = NoError
          /\ Len(after) = Len(before) + Len(params)
          /\ SubSeq(after, 1, Len(before)) = before
          /\ \A i \in 1..Len(params) : after[Len(before) + i] \in ParamReadings(params[i])

\* C19: WithSecrets with provider type "kubernetes" returns the same config,
\* leaves EnvVars as they were, adds one KubernetesSecrets entry per
\* parameter <name>/<key>,target=<env>, and with an empty secrets list
\* changes nothing, so that KubernetesSecrets stays as it was.
C19_OneEntryPerParameterNoneWhenEmpty ==
  [][WithSecretsReturned =>
       /\ OneEntryPerParameter
       /\ runConfig.Secrets = <<>> => runConfig' = runConfig]_vars

\* Two parameters were turned into two entries, in options that did not
\* exist before, and EnvVars is as it was.
C19_Witness ==
  /\ runResult.called
  /\ ~runConfig.ContainerOptions.isNil
  /\ runResult.err = NoError
  /\ runConfig.EnvVars = ExistingEnvVars
  /\ runConfig.Secrets = << <<"n", "/", "k", TargetSep, "e">>,
                            <<"n", "/", "k", "/", "k", TargetSep, "e">> >>
  /\ runConfig.ContainerOptions.KubernetesSecrets =
       << [Name |-> <<"n">>, Key |-> <<"k">>, TargetEnvName |-> <<"e">>],
          [Name |-> <<"n">>, Key |-> <<"k", "/", "k">>, TargetEnvName |-> <<"e">>] >>

\* ================================================= pod template builder

\* Most secrets of an MCPServer passed to the builder.
MaxSecretRefs == 2

mcpContainerName == "mcp"

SecretTypeKubernetes == "kubernetes"

SecretTypeVault == "vault"

\* mcpv1alpha1.SecretRef values.
SecretRefs ==
  [Name : {"s1", "s2"}, Key : {"", "k"},
   Type : {"", SecretTypeKubernetes, SecretTypeVault}, TargetEnvName : {"", "T"}]

SecretRefLists == UNION {[1..n -> SecretRefs] : n \in 0..MaxSecretRefs}

PlainEnvVar == [Name |-> "PLAIN", SecretKeyRef |-> [Name |-> "", Key |-> ""]]

\* User-provided pod templates; none is the empty spec.
UserTemplates ==
  {EmptyPodTemplateSpec,
   [EmptyPodTemplateSpec EXCEPT !.Containers = <<[Name |-> "sidecar", Env |-> <<>>]>>],
   [EmptyPodTemplateSpec EXCEPT !.Containers =
      <<[Name |-> mcpContainerName, Env |-> <<PlainEnvVar>>]>>],
   [EmptyPodTemplateSpec EXCEPT !.Containers =
      <<[Name |-> "sidecar", Env |-> <<>>], [Name |-> mcpContainerName, Env |-> <<>>],
        [Name |-> mcpContainerName, Env |-> <<PlainEnvVar>>]>>,
      !.ServiceAccountName = "sa"]}

\* Faulty variant: the env var is always named after the key.
SecretEnvVarNamedByKey(secret) ==
  [Name |-> secret.Key, SecretKeyRef |-> [Name |-> secret.Name, Key |-> secret.Key]]

\* The env var of one secret: named by TargetEnvName, else by Key.
SecretEnvVar(secret) ==
  [Name |-> IF secret.TargetEnvName # "" THEN secret.TargetEnvName ELSE secret.Key,
   SecretKeyRef |-> [Name |-> secret.Name, Key |-> secret.Key]]

\* The loop over the secrets: other types and empty keys are skipped.
RECURSIVE SecretEnvVars(_)
SecretEnvVars(secrets) ==
  IF secrets = <<>> THEN <<>>
  ELSE LET secret == Head(secrets)
       IN IF secret.Type # SecretTypeKubernetes /\ secret.Type # ""
            THEN SecretEnvVars(Tail(secrets))
          ELSE IF secret.Key = "" THEN SecretEnvVars(Tail(secrets))
          ELSE <<SecretEnvVar(secret)>> \o SecretEnvVars(Tail(secrets))

\* Index of the first container with the MCP container's name, 0 for none.
McpIndex(containers) ==
  IF \E i \in 1..Len(containers) : containers[i].Name = mcpContainerName
    THEN CHOOSE i \in 1..Len(containers) :
           /\ containers[i].Name = mcpContainerName
           /\ \A j \in 1..(i - 1) : containers[j].Name # mcpContainerName
    ELSE 0

\* Faulty variant: the env vars always go into a new MCP container.
BuilderWithSecretsAlwaysAppends(spec, secrets) ==
  IF Len(SecretEnvVars(secrets)) = 0 THEN spec
  ELSE [spec EXCEPT !.Containers =
          Append(@, [Name |-> mcpContainerName, Env |-> SecretEnvVars(secrets)])]

\* b.WithSecrets(secrets): the spec afterwards.
BuilderWithSecrets(spec, secrets) ==
  IF Len(secrets) = 0 THEN spec
  ELSE LET secretEnvVars == SecretEnvVars(secrets)
           mcpIndex == McpIndex(spec.Containers)
       IN IF Len(secretEnvVars) = 0 THEN spec
          ELSE IF mcpIndex > 0
            THEN [spec EXCEPT !.Containers[mcpIndex].Env = @ \o secretEnvVars]
            ELSE [spec EXCEPT !.Containers =
                    Append(@, [Name |-> mcpContainerName, Env |-> secretEnvVars])]

exceptBuild == <<pipeline, workers, kube, run, rest>>

BuilderWithSecretsCall ==
  \E secrets \in SecretRefLists :
    /\ ~lastSecrets.called
    /\ builder' = BuilderWithSecrets(builder, secrets)
    /\ lastSecrets' = [called |-> TRUE, secrets |-> secrets]
    /\ UNCHANGED <<userTemplate, lastVault, buildResult, exceptBuild>>

NextBuild ==
  \/ BuilderWithSecretsCall

\* NewMCPServerPodTemplateSpecBuilder(userTemplate)
InitBuild ==
  /\ PipelineIdle
  /\ workers = IdleWorkers /\ RestIdle
  /\ KubeIdle
  /\ RunIdle
  /\ builder \in UserTemplates
  /\ lastSecrets = NoSecretsCall
  /\ userTemplate = NoTemplate
  /\ lastVault = NoVaultCall
  /\ buildResult = NoBuild

SpecBuild == InitBuild /\ [][NextBuild]_vars

\* The positions of the secrets that get an env var: type kubernetes or
\* empty, and a key.
Mounted(secrets) ==
  {i \in 1..Len(secrets) :
     secrets[i].Type \in {SecretTypeKubernetes, ""} /\ secrets[i].Key # ""}

\* The env vars WithSecrets added to the MCP container: all of them when it
\* created the container, else those after the ones the container had.
AddedEnv(before, after) ==
  LET i == McpIndex(after.Containers)
  IN IF i = 0 THEN <<>>
     ELSE IF McpIndex(before.Containers) = i
       THEN SubSeq(after.Containers[i].Env, Len(before.Containers[i].Env) + 1,
                   Len(after.Containers[i].Env))
       ELSE after.Containers[i].Env

\* The spec but for the env of its MCP container.
WithoutMcpEnv(spec) ==
  LET i == McpIndex(spec.Containers)
  IN IF i = 0 THEN spec ELSE [spec EXCEPT !.Containers[i].Env = <<>>]

\* C20: WithSecrets adds to the MCP container exactly one env var per secret
\* of type kubernetes or empty with a non-empty key, in input order, named
\* TargetEnvName when non-empty and Key otherwise, referring to the secret's
\* Name and Key; other secrets add nothing, what the container held stays,
\* and an empty list leaves the builder unchanged.
C20_OneEnvVarPerKubernetesSecret ==
  [][lastSecrets'.called =>
       LET secrets == lastSecrets'.secrets
           mounted == Mounted(secrets)
           added == AddedEnv(builder, builder')
       IN /\ Len(added) = Cardinality(mounted)
          /\ \A i \in mounted :
               LET v == added[Cardinality({j \in mounted : j <= i})]
               IN /\ v.Name = IF secrets[i].TargetEnvName # "" THEN secrets[i].TargetEnvName
                              ELSE secrets[i].Key
                  /\ v.SecretKeyRef = [Name |-> secrets[i].Name, Key |-> secrets[i].Key]
          /\ mounted = {} => builder' = builder
          /\ mounted # {} =>
               /\ McpIndex(builder'.Containers) > 0
               /\ McpIndex(builder.Containers) > 0 =>
                    /\ WithoutMcpEnv(builder') = WithoutMcpEnv(builder)
                    /\ McpIndex(builder'.Containers) = McpIndex(builder.Containers)
                    /\ SubSeq(builder'.Containers[McpIndex(builder.Containers)].Env, 1,
                              Len(builder.Containers[McpIndex(builder.Containers)].Env))
                         = builder.Containers[McpIndex(builder.Containers)].Env
               /\ McpIndex(builder.Containers) = 0 =>
                    /\ Len(builder'.Containers) = Len(builder.Containers) + 1
                    /\ SubSeq(builder'.Containers, 1, Len(builder.Containers))
                         = builder.Containers
                    /\ [builder' EXCEPT !.Containers = builder.Containers] = builder
          /\ secrets = <<>> => builder' = builder]_vars

\* A kubernetes secret with a target and an untyped one without: the MCP
\* container, which held an env var, got the two after it, the first named
\* by its target, the second by its key.
C20_Witness ==
  /\ lastSecrets.called
  /\ Len(lastSecrets.secrets) = 2
  /\ lastSecrets.secrets[1] =
       [Name |-> "s1", Key |-> "k", Type |-> SecretTypeKubernetes, TargetEnvName |-> "T"]
  /\ lastSecrets.secrets[2] = [Name |-> "s2", Key |-> "k", Type |-> "", TargetEnvName |-> ""]
  /\ Len(builder.Containers) = 1
  /\ builder.Containers[1].Env =
       <<PlainEnvVar,
         [Name |-> "T", SecretKeyRef |-> [Name |-> "s1", Key |-> "k"]],
         [Name |-> "k", SecretKeyRef |-> [Name |-> "s2", Key |-> "k"]]>>

\* ================================================= builder call chains

\* Most env vars on the MCP container of one builder.
MaxEnvVars == 3

vaultAgentInjectAnnotation == <<"vault.hashicorp.com/agent-inject">>

vaultAgentRoleAnnotation == <<"vault.hashicorp.com/role">>

vaultAgentAuthPathAnnotation == <<"vault.hashicorp.com/auth-path">>

vaultAgentServiceAnnotation == <<"vault.hashicorp.com/service">>

vaultAgentSecretAnnotationPrefix == "vault.hashicorp.com/agent-inject-secret-"

vaultAgentTemplateAnnotationPrefix == "vault.hashicorp.com/agent-inject-template-"

vaultDefaultAuthPath == "auth/kubernetes"

\* Writing every entry of one map into another.
MergeAnnotations(into, from) ==
  [k \in DOMAIN into \cup DOMAIN from |-> IF k \in DOMAIN from THEN from[k] ELSE into[k]]

hasVaultSecrets(secrets) ==
  \E i \in 1..Len(secrets) : secrets[i].Type = SecretTypeVault

\* The loop over the secrets: each vault-type secret sets its path, and its
\* template when it has one; a later secret overwrites an earlier one's.
RECURSIVE VaultSecretAnnotations(_, _)
VaultSecretAnnotations(annotations, secrets) ==
  IF secrets = <<>> THEN annotations
  ELSE LET secret == Head(secrets)
           withPath ==
             MergeAnnotations(annotations,
               [k \in {<<vaultAgentSecretAnnotationPrefix, secret.Name>>} |-> secret.Path])
           withTemplate ==
             IF secret.Template # ""
               THEN MergeAnnotations(withPath,
                      [k \in {<<vaultAgentTemplateAnnotationPrefix, secret.Name>>} |->
                         secret.Template])
               ELSE withPath
       IN IF secret.Type = SecretTypeVault
            THEN VaultSecretAnnotations(withTemplate, Tail(secrets))
            ELSE VaultSecretAnnotations(annotations, Tail(secrets))

\* Faulty variant: a disabled agent still gets its annotations.
BuilderWithVaultAnnotationsWhenDisabled(spec, vaultAgent, secrets) ==
  IF vaultAgent.isNil THEN spec
  ELSE [spec EXCEPT !.Annotations =
          MergeAnnotations(@, [k \in {vaultAgentInjectAnnotation} |-> "true"])]

\* b.WithVaultAnnotations(vaultAgent, secrets): the spec afterwards.
BuilderWithVaultAnnotations(spec, vaultAgent, secrets) ==
  IF vaultAgent.isNil \/ ~vaultAgent.Enabled THEN spec
  ELSE IF ~hasVaultSecrets(secrets) THEN spec
  ELSE LET authPath == IF vaultAgent.AuthPath = "" THEN vaultDefaultAuthPath
                       ELSE vaultAgent.AuthPath
           required ==
             [k \in {vaultAgentInjectAnnotation, vaultAgentRoleAnnotation,
                     vaultAgentAuthPathAnnotation} |->
                CASE k = vaultAgentInjectAnnotation -> "true"
                  [] k = vaultAgentRoleAnnotation -> vaultAgent.Role
                  [] OTHER -> authPath]
           withAddress ==
             IF ~vaultAgent.ConfigIsNil /\ vaultAgent.VaultAddress # ""
               THEN MergeAnnotations(required,
                      [k \in {vaultAgentServiceAnnotation} |-> vaultAgent.VaultAddress])
               ELSE required
           annotations == VaultSecretAnnotations(withAddress, secrets)
       IN [spec EXCEPT !.Annotations = MergeAnnotations(@, annotations)]

\* b.WithServiceAccount(serviceAccount): the spec afterwards.
BuilderWithServiceAccount(spec, serviceAccount) ==
  IF ~serviceAccount.isNil /\ serviceAccount.value # ""
    THEN [spec EXCEPT !.ServiceAccountName = serviceAccount.value]
    ELSE spec

isEmpty(spec) ==
  /\ spec.ServiceAccountName = ""
  /\ Len(spec.Containers) = 0
  /\ DOMAIN spec.Annotations = {}

\* b.Build(): nil for an empty spec, else the spec.
Build(spec) ==
  IF isEmpty(spec) THEN [isNil |-> TRUE, spec |-> EmptyPodTemplateSpec]
  ELSE [isNil |-> FALSE, spec |-> spec]

\* Faulty variant: the builder works on the user's template itself.
NewMCPServerPodTemplateSpecBuilderNoCopy(template) ==
  IF ~template.isNil THEN [spec |-> template.spec, shared |-> TRUE]
  ELSE [spec |-> EmptyPodTemplateSpec, shared |-> FALSE]

\* NewMCPServerPodTemplateSpecBuilder(userTemplate): a deep copy of the
\* template, or an empty spec.
NewMCPServerPodTemplateSpecBuilder(template) ==
  IF ~template.isNil THEN [spec |-> template.spec, shared |-> FALSE]
  ELSE [spec |-> EmptyPodTemplateSpec, shared |-> FALSE]

\* The user's template object after the builder's spec became `spec`.
TemplateObject(template, spec) ==
  IF template.shared THEN [template EXCEPT !.spec = spec] ELSE template

NilVaultAgent ==
  [isNil |-> TRUE, Enabled |-> FALSE, Role |-> "", AuthPath |-> "",
   ConfigIsNil |-> TRUE, VaultAddress |-> ""]

\* SecretRef values with the vault fields, for chains of calls.
ChainSecretRefs ==
  {[Name |-> "s1", Key |-> "k", Type |-> SecretTypeKubernetes, TargetEnvName |-> "T",
    Path |-> "", Template |-> ""],
   [Name |-> "s2", Key |-> "", Type |-> "", TargetEnvName |-> "",
    Path |-> "", Template |-> ""],
   [Name |-> "s1", Key |-> "", Type |-> SecretTypeVault, TargetEnvName |-> "",
    Path |-> "p1", Template |-> "t"]}

ChainSecretLists == UNION {[1..n -> ChainSecretRefs] : n \in 0..MaxSecretRefs}

ChainVaultAgents ==
  {NilVaultAgent,
   [NilVaultAgent EXCEPT !.isNil = FALSE, !.Role = "r"],
   [NilVaultAgent EXCEPT !.isNil = FALSE, !.Enabled = TRUE, !.Role = "r"]}

\* *string arguments of WithServiceAccount.
ServiceAccounts ==
  {[isNil |-> TRUE, value |-> ""], [isNil |-> FALSE, value |-> ""],
   [isNil |-> FALSE, value |-> "sa"]}

\* User templates for chains of calls: none, the ones of UserTemplates, one
\* holding only labels and one holding only an annotation.
ChainTemplates ==
  {NoTemplate}
    \cup {[isNil |-> FALSE, spec |-> t, shared |-> FALSE] : t \in UserTemplates}
    \cup {[isNil |-> FALSE, shared |-> FALSE,
           spec |-> [EmptyPodTemplateSpec EXCEPT !.Labels = {"app"}]],
          [isNil |-> FALSE, shared |-> FALSE,
           spec |-> [EmptyPodTemplateSpec EXCEPT
                       !.Annotations = [k \in {<<"team">>} |-> "a"]]]}

\* The env vars of the MCP container, none when there is no such container.
McpEnv(spec) ==
  IF McpIndex(spec.Containers) = 0 THEN <<>>
  ELSE spec.Containers[McpIndex(spec.Containers)].Env

ChainWithServiceAccount ==
  \E serviceAccount \in ServiceAccounts :
    /\ builder' = BuilderWithServiceAccount(builder, serviceAccount)
    /\ userTemplate' = TemplateObject(userTemplate, builder')
    /\ lastSecrets' = NoSecretsCall
    /\ lastVault' = NoVaultCall
    /\ buildResult' = NoBuild
    /\ UNCHANGED exceptBuild

ChainWithSecrets ==
  \E secrets \in ChainSecretLists :
    /\ Len(McpEnv(BuilderWithSecrets(builder, secrets))) <= MaxEnvVars
    /\ builder' = BuilderWithSecrets(builder, secrets)
    /\ userTemplate' = TemplateObject(userTemplate, builder')
    /\ lastSecrets' = [called |-> TRUE, secrets |-> secrets]
    /\ lastVault' = NoVaultCall
    /\ buildResult' = NoBuild
    /\ UNCHANGED exceptBuild

ChainWithVaultAnnotations ==
  \E vaultAgent \in ChainVaultAgents, secrets \in ChainSecretLists :
    /\ builder' = BuilderWithVaultAnnotations(builder, vaultAgent, secrets)
    /\ userTemplate' = TemplateObject(userTemplate, builder')
    /\ lastSecrets' = NoSecretsCall
    /\ lastVault' = [called |-> TRUE, vaultAgent |-> vaultAgent, secrets |-> secrets]
    /\ buildResult' = NoBuild
    /\ UNCHANGED exceptBuild

ChainBuild ==
  /\ buildResult' = [called |-> TRUE] @@ Build(builder)
  /\ lastSecrets' = NoSecretsCall
  /\ lastVault' = NoVaultCall
  /\ UNCHANGED <<builder, userTemplate, exceptBuild>>

NextChain ==
  \/ ChainWithServiceAccount
  \/ ChainWithSecrets
  \/ ChainWithVaultAnnotations
  \/ ChainBuild

\* NewMCPServerPodTemplateSpecBuilder(template) for every template.
InitChain ==
  /\ PipelineIdle
  /\ workers = IdleWorkers /\ RestIdle
  /\ KubeIdle
  /\ RunIdle
  /\ \E template \in ChainTemplates :
       /\ builder = NewMCPServerPodTemplateSpecBuilder(template).spec
       /\ userTemplate =
            [template EXCEPT !.shared = NewMCPServerPodTemplateSpecBuilder(template).shared]
  /\ lastSecrets = NoSecretsCall
  /\ lastVault = NoVaultCall
  /\ buildResult = NoBuild

SpecChain == InitChain /\ [][NextChain]_vars

\* C21: Build returns nil exactly when the builder holds no service
\* account, no container, no annotation and nothing else taken from a user
\* template; otherwise it returns the spec the builder holds.
C21_BuildNilIffNoCustomization ==
  buildResult.called =>
    /\ buildResult.isNil <=> builder = EmptyPodTemplateSpec
    /\ ~buildResult.isNil => buildResult.spec = builder

\* The number of containers with the MCP container's name.
McpCount(containers) ==
  Cardinality({i \in 1..Len(containers) : containers[i].Name = mcpContainerName})

\* C27: in any sequence of builder calls, WithSecrets never adds a second
\* container named mcp: it appends the env vars to the MCP container the
\* spec has, after those it held, or else appends exactly one new mcp
\* container; the other containers, their env vars and the env vars the MCP
\* container held stay as they were, and no call changes the user's template.
C27_NoSecondMcpContainer ==
  [][/\ userTemplate' = userTemplate
     /\ lastSecrets'.called =>
          LET before == builder.Containers
              after == builder'.Containers
              i == McpIndex(before)
          IN /\ [builder' EXCEPT !.Containers = before] = builder
             /\ i > 0 =>
                  /\ Len(after) = Len(before)
                  /\ McpCount(after) = McpCount(before)
                  /\ \A j \in 1..Len(before) : j # i => after[j] = before[j]
                  /\ after[i].Name = mcpContainerName
                  /\ Len(after[i].Env) >= Len(before[i].Env)
                  /\ SubSeq(after[i].Env, 1, Len(before[i].Env)) = before[i].Env
             /\ i = 0 =>
                  \/ after = before
                  \/ /\ Len(after) = Len(before) + 1
                     /\ SubSeq(after, 1, Len(before)) = before
                     /\ after[Len(after)].Name = mcpContainerName
                     /\ after[Len(after)].Env # <<>>
                     /\ McpCount(after) = 1]_vars

\* After WithServiceAccount, WithSecrets ran on a builder made from a
\* template with an MCP container holding one env var: the secret's env var
\* follows it in the one MCP container, and the template is as it was.
C27_Witness ==
  /\ lastSecrets.called
  /\ ~userTemplate.isNil
  /\ userTemplate.spec =
       [EmptyPodTemplateSpec EXCEPT !.Containers =
          <<[Name |-> mcpContainerName, Env |-> <<PlainEnvVar>>]>>]
  /\ builder.ServiceAccountName = "sa"
  /\ builder.Containers =
       <<[Name |-> mcpContainerName,
          Env |-> <<PlainEnvVar,
                    [Name |-> "T", SecretKeyRef |-> [Name |-> "s1", Key |-> "k"]]>>]>>

\* ================================================= Vault Agent annotations

\* VaultAgentConfig values: nil, disabled, and enabled with or without an
\* auth path, a Config and a Vault address.
VaultAgents ==
  {NilVaultAgent, [NilVaultAgent EXCEPT !.isNil = FALSE, !.Role = "r"]}
    \cup [isNil : {FALSE}, Enabled : {TRUE}, Role : {"r"}, AuthPath : {"", "auth/custom"},
          ConfigIsNil : {TRUE}, VaultAddress : {""}]
    \cup [isNil : {FALSE}, Enabled : {TRUE}, Role : {"r"}, AuthPath : {"", "auth/custom"},
          ConfigIsNil : {FALSE}, VaultAddress : {"", "https://vault:8200"}]

VaultSecretRefs ==
  [Name : {"s1", "s2"}, Key : {""}, Type : {SecretTypeKubernetes, SecretTypeVault},
   TargetEnvName : {""}, Path : {"p1", "p2"}, Template : {"", "t"}]

VaultSecretLists == UNION {[1..n -> VaultSecretRefs] : n \in 0..MaxSecretRefs}

\* Specs the annotations are added to: an empty one, one with an annotation
\* of the user's, one where the user set an annotation the agent sets too.
VaultTemplates ==
  {EmptyPodTemplateSpec,
   [EmptyPodTemplateSpec EXCEPT !.Annotations = [k \in {<<"team">>} |-> "a"]],
   [EmptyPodTemplateSpec EXCEPT
      !.Annotations = [k \in {<<"team">>, vaultAgentInjectAnnotation} |->
                         IF k = <<"team">> THEN "a" ELSE "false"]]}

VaultAnnotationsCall ==
  \E vaultAgent \in VaultAgents, secrets \in VaultSecretLists :
    /\ ~lastVault.called
    /\ builder' = BuilderWithVaultAnnotations(builder, vaultAgent, secrets)
    /\ lastVault' = [called |-> TRUE, vaultAgent |-> vaultAgent, secrets |-> secrets]
    /\ UNCHANGED <<lastSecrets, userTemplate, buildResult, exceptBuild>>

NextVault ==
  \/ VaultAnnotationsCall

InitVault ==
  /\ PipelineIdle
  /\ workers = IdleWorkers /\ RestIdle
  /\ KubeIdle
  /\ RunIdle
  /\ builder \in VaultTemplates
  /\ lastSecrets = NoSecretsCall
  /\ userTemplate = NoTemplate
  /\ lastVault = NoVaultCall
  /\ buildResult = NoBuild

SpecVault == InitVault /\ [][NextVault]_vars

\* The positions of the vault-type secrets.
VaultTyped(secrets) == {i \in 1..Len(secrets) : secrets[i].Type = SecretTypeVault}

\* The last of the positions `among` whose secret has the name of secret i.
LastNamed(secrets, among, i) ==
  CHOOSE j \in among :
    /\ secrets[j].Name = secrets[i].Name
    /\ \A l \in among : secrets[l].Name = secrets[i].Name => l <= j

\* C22: WithVaultAnnotations changes the builder only when the agent config
\* is non-nil and enabled and some secret has type vault. Then the
\* annotations hold agent-inject = "true", the role, auth-path (the
\* configured one, else auth/kubernetes), service exactly when a Vault
\* address is configured, agent-inject-secret-<name> = <path> for each
\* vault-type secret, agent-inject-template-<name> for each vault-type secret
\* with a non-empty template, and nothing else is added or changed. (Of
\* several vault-type secrets with one name the last one's value stands.)
C22_VaultAnnotationsOnlyWhenEnabledWithVaultSecrets ==
  [][lastVault'.called =>
       LET vaultAgent == lastVault'.vaultAgent
           secrets == lastVault'.secrets
           vault == VaultTyped(secrets)
           templated == {i \in vault : secrets[i].Template # ""}
           before == builder.Annotations
           after == builder'.Annotations
           addressed == ~vaultAgent.ConfigIsNil /\ vaultAgent.VaultAddress # ""
           added ==
             {vaultAgentInjectAnnotation, vaultAgentRoleAnnotation,
              vaultAgentAuthPathAnnotation}
               \cup (IF addressed THEN {vaultAgentServiceAnnotation} ELSE {})
               \cup {<<vaultAgentSecretAnnotationPrefix, secrets[i].Name>> : i \in vault}
               \cup {<<vaultAgentTemplateAnnotationPrefix, secrets[i].Name>> : i \in templated}
       IN IF vaultAgent.isNil \/ ~vaultAgent.Enabled \/ vault = {}
            THEN builder' = builder
            ELSE /\ [builder' EXCEPT !.Annotations = before] = builder
                 /\ DOMAIN after = DOMAIN before \cup added
                 /\ \A k \in DOMAIN before \ added : after[k] = before[k]
                 /\ after[vaultAgentInjectAnnotation] = "true"
                 /\ after[vaultAgentRoleAnnotation] = vaultAgent.Role
                 /\ after[vaultAgentAuthPathAnnotation] =
                      IF vaultAgent.AuthPath # "" THEN vaultAgent.AuthPath
                      ELSE "auth/kubernetes"
                 /\ addressed =>
                      after[vaultAgentServiceAnnotation] = vaultAgent.VaultAddress
                 /\ \A i \in vault :
                      after[<<vaultAgentSecretAnnotationPrefix, secrets[i].Name>>] =
                        secrets[LastNamed(secrets, vault, i)].Path
                 /\ \A i \in templated :
                      after[<<vaultAgentTemplateAnnotationPrefix, secrets[i].Name>>] =
                        secrets[LastNamed(secrets, templated, i)].Template]_vars

\* An enabled agent with a Vault address and no auth path, a vault secret
\* with a template and a kubernetes secret, on a spec with an annotation of
\* the user's: the six annotations are there beside the user's.
C22_Witness ==
  /\ lastVault.called
  /\ lastVault.vaultAgent =
       [isNil |-> FALSE, Enabled |-> TRUE, Role |-> "r", AuthPath |-> "",
        ConfigIsNil |-> FALSE, VaultAddress |-> "https://vault:8200"]
  /\ Len(lastVault.secrets) = 2
  /\ lastVault.secrets[1] =
       [Name |-> "s1", Key |-> "", Type |-> SecretTypeVault, TargetEnvName |-> "",
        Path |-> "p1", Template |-> "t"]
  /\ lastVault.secrets[2].Type = SecretTypeKubernetes
  /\ lastVault.secrets[2].Name = "s2"
  /\ DOMAIN builder.Annotations =
       {<<"team">>, vaultAgentInjectAnnotation, vaultAgentRoleAnnotation,
        vaultAgentAuthPathAnnotation, vaultAgentServiceAnnotation,
        <<vaultAgentSecretAnnotationPrefix, "s1">>,
        <<vaultAgentTemplateAnnotationPrefix, "s1">>}
  /\ builder.Annotations[vaultAgentAuthPathAnnotation] = vaultDefaultAuthPath
  /\ builder.Annotations[<<vaultAgentSecretAnnotationPrefix, "s1">>] = "p1"

\* ================================================= Vault secret files

\* Longest content of a Vault secret file, in characters.
MaxContentLen == 6

FileChars == {" ", "#", "=", "\n", "K"}

Contents == UNION {[1..n -> FileChars] : n \in 0..MaxContentLen}

\* strings.TrimSpace(line)
RECURSIVE TrimSpace(_)
TrimSpace(line) ==
  IF line = <<>> THEN line
  ELSE IF Head(line) = " " THEN TrimSpace(Tail(line))
  ELSE IF line[Len(line)] = " " THEN TrimSpace(SubSeq(line, 1, Len(line) - 1))
  ELSE line

Contains(line, c) == \E i \in 1..Len(line) : line[i] = c

\* Faulty variant: comment lines are kept.
EnvLinesWithComments(lines) ==
  SelectSeq([i \in 1..Len(lines) |-> TrimSpace(lines[i])],
            LAMBDA line : line # <<>> /\ Contains(line, "="))

\* The loop over the lines: trimmed, and kept when non-empty, not a comment
\* and with an "=".
EnvLines(lines) ==
  SelectSeq([i \in 1..Len(lines) |-> TrimSpace(lines[i])],
            LAMBDA line : line # <<>> /\ Head(line) # "#" /\ Contains(line, "="))

\* Index of the first "=" of a line that has one.
FirstEquals(line) ==
  CHOOSE i \in 1..Len(line) : line[i] = "=" /\ \A j \in 1..(i - 1) : line[j] # "="

\* environment.ParseEnvironmentVariables(envLines), when it reports no
\* error: each line is cut at its first "=", a later line overwrites the
\* value an earlier one gave the same key.
RECURSIVE ParseEnvironmentVariables(_)
ParseEnvironmentVariables(envLines) ==
  IF envLines = <<>> THEN <<>>
  ELSE LET line == envLines[Len(envLines)]
           key == SubSeq(line, 1, FirstEquals(line) - 1)
           value == SubSeq(line, FirstEquals(line) + 1, Len(line))
           earlier == ParseEnvironmentVariables(SubSeq(envLines, 1, Len(envLines) - 1))
       IN [k \in DOMAIN earlier \cup {key} |-> IF k = key THEN value ELSE earlier[k]]

ErrReadFile == "failed to read file"

ErrParseFile == "failed to parse environment variables"

\* processVaultSecretFile(path) for a file with this content; `readable`
\* is whether os.ReadFile succeeds, `parserFails` whether the parser
\* reports an error for the lines it is given.
processVaultSecretFile(file) ==
  IF ~file.readable THEN [isNil |-> TRUE, secrets |-> <<>>, err |-> ErrReadFile]
  ELSE LET envLines == EnvLines(Split(file.content, "\n"))
       IN IF Len(envLines) = 0 THEN [isNil |-> FALSE, secrets |-> <<>>, err |-> NoError]
          ELSE IF file.parserFails
            THEN [isNil |-> TRUE, secrets |-> <<>>, err |-> ErrParseFile]
          ELSE [isNil |-> FALSE, secrets |-> ParseEnvironmentVariables(envLines),
                err |-> NoError]

Files == [kind : {"file"}, readable : BOOLEAN, parserFails : BOOLEAN, content : Contents]

core == <<pipeline, workers, kube, run, build>>

ProcessVaultSecretFileCall ==
  /\ vaultFs.kind = "file"
  /\ ~vaultEnv.called
  /\ vaultEnv' = [called |-> TRUE] @@ processVaultSecretFile(vaultFs)
  /\ UNCHANGED <<vaultFs, operator, passwords, api, core>>

NextVaultFile ==
  \/ ProcessVaultSecretFileCall

InitVaultFile ==
  /\ PipelineIdle
  /\ workers = IdleWorkers
  /\ KubeIdle
  /\ RunIdle
  /\ BuildIdle
  /\ OperatorIdle
  /\ PasswordsIdle
  /\ ApiIdle
  /\ vaultFs \in Files
  /\ vaultEnv = NoEnv

SpecVaultFile == InitVaultFile /\ [][NextVaultFile]_vars

\* The lines of the content, each without its surrounding spaces.
TrimmedLines(content) ==
  LET lines == Split(content, "\n")
  IN [i \in 1..Len(lines) |-> TrimSpace(lines[i])]

\* The positions of the lines that hold a variable.
VariableLines(content) ==
  {i \in 1..Len(TrimmedLines(content)) :
     LET line == TrimmedLines(content)[i]
     IN line # <<>> /\ line[1] # "#" /\ \E j \in 1..Len(line) : line[j] = "="}

KeyOf(line) == SubSeq(line, 1, FirstEquals(line) - 1)

ValueOf(line) == SubSeq(line, FirstEquals(line) + 1, Len(line))

\* C23: processVaultSecretFile, for a file it can read and lines the parser
\* accepts, returns exactly the KEY=VALUE pairs of the lines that, trimmed,
\* are non-empty, do not start with "#" and contain "=" (the last such line
\* of a key gives its value); lines without "=" are skipped without error,
\* and a file without such lines gives an empty map and no error.
C23_ExactlyTheKeyValueLines ==
  (vaultFs.kind = "file" /\ vaultEnv.called /\ vaultFs.readable) =>
    LET lines == TrimmedLines(vaultFs.content)
        kept == VariableLines(vaultFs.content)
    IN /\ kept = {} => vaultEnv.err = NoError /\ ~vaultEnv.isNil /\ vaultEnv.secrets = <<>>
       /\ (kept # {} /\ ~vaultFs.parserFails) =>
            /\ vaultEnv.err = NoError
            /\ ~vaultEnv.isNil
            /\ DOMAIN vaultEnv.secrets = {KeyOf(lines[i]) : i \in kept}
            /\ \A i \in kept :
                 (\A j \in kept : j > i => KeyOf(lines[j]) # KeyOf(lines[i])) =>
                   vaultEnv.secrets[KeyOf(lines[i])] = ValueOf(lines[i])

\* The file with the lines "K=", "#" and "K": one variable K with the empty
\* value from the first line; the comment and the line without "=" give
\* nothing.
C23_Witness ==
  /\ vaultFs.kind = "file"
  /\ vaultFs.readable
  /\ vaultEnv.called
  /\ vaultFs.content = <<"K", "=", "\n", "#", "\n", "K">>
  /\ vaultEnv.err = NoError
  /\ DOMAIN vaultEnv.secrets = {<<"K">>}
  /\ vaultEnv.secrets[<<"K">>] = <<>>

\* ================================================= the Vault secrets directory

\* Most entries of /vault/secrets.
MaxEntries == 3

\* Names of directory entries, in the order os.ReadDir returns them.
EntryNames == <<<<".", "h">>, <<"a">>, <<"b">>, <<"c">>>>

EntryContents == {<<"K", "=", "K">>, <<"K", "=">>, <<"K", "K", "=", "K">>}

\* What an entry is besides its name: a directory, a file that cannot be
\* read, or a readable file, with its content (which the parser may reject).
\* A directory has no content to tell apart, and only a file that is read
\* reaches the parser.
EntryKinds ==
  {k \in [IsDir : BOOLEAN, readable : BOOLEAN, parserFails : BOOLEAN, content : EntryContents] :
     /\ k.IsDir => k.readable /\ k.content = <<"K", "=", "K">>
     /\ (k.IsDir \/ ~k.readable) => ~k.parserFails}

Entries ==
  {[Name |-> EntryNames[i]] @@ k : i \in 1..Len(EntryNames), k \in EntryKinds}

\* The i-th smallest member of a set of positions.
Nth(positions, i) ==
  CHOOSE p \in positions : Cardinality({q \in positions : q < p}) = i - 1

\* The listings os.ReadDir can return: entries sorted by name, no name twice.
Listings ==
  UNION {{[i \in 1..Cardinality(positions) |->
             [Name |-> EntryNames[Nth(positions, i)]] @@ kinds[Nth(positions, i)]] :
            kinds \in [positions -> EntryKinds]} :
         positions \in {ps \in SUBSET (1..Len(EntryNames)) :
                           ps # {} /\ Cardinality(ps) <= MaxEntries}}

ErrReadDirectory == "failed to read vault secrets directory"

HasPrefix(s, c) == Len(s) > 0 /\ s[1] = c

\* Faulty variant: a file that cannot be processed ends the loop's merging.
RECURSIVE MergeEntriesUntilFailure(_, _)
MergeEntriesUntilFailure(allSecrets, entries) ==
  IF entries = <<>> THEN allSecrets
  ELSE LET entry == Head(entries)
           fileSecrets == processVaultSecretFile(entry)
       IN IF entry.IsDir \/ HasPrefix(entry.Name, ".")
            THEN MergeEntriesUntilFailure(allSecrets, Tail(entries))
          ELSE IF fileSecrets.err # NoError THEN <<>>
          ELSE MergeEntriesUntilFailure(MergeAnnotations(allSecrets, fileSecrets.secrets),
                                        Tail(entries))

\* The loop over the entries: directories and hidden files are skipped, a
\* file that cannot be processed is skipped, the others' variables are
\* written into allSecrets.
RECURSIVE MergeEntries(_, _)
MergeEntries(allSecrets, entries) ==
  IF entries = <<>> THEN allSecrets
  ELSE LET entry == Head(entries)
           fileSecrets == processVaultSecretFile(entry)
       IN IF entry.IsDir \/ HasPrefix(entry.Name, ".")
            THEN MergeEntries(allSecrets, Tail(entries))
          ELSE IF fileSecrets.err # NoError THEN MergeEntries(allSecrets, Tail(entries))
          ELSE MergeEntries(MergeAnnotations(allSecrets, fileSecrets.secrets), Tail(entries))

\* processVaultSecretsDirectory()
processVaultSecretsDirectory(fs) ==
  IF fs.state = "missing" THEN [isNil |-> FALSE, secrets |-> <<>>, err |-> NoError]
  ELSE IF fs.state = "unreadable"
    THEN [isNil |-> TRUE, secrets |-> <<>>, err |-> ErrReadDirectory]
  ELSE [isNil |-> FALSE, secrets |-> MergeEntries(<<>>, fs.entries), err |-> NoError]

Directories ==
  {[kind |-> "dir", state |-> s, entries |-> <<>>] : s \in {"missing", "unreadable", "ok"}}
    \cup {[kind |-> "dir", state |-> "ok", entries |-> l] : l \in Listings}

ProcessVaultSecretsDirectoryCall ==
  /\ vaultFs.kind = "dir"
  /\ ~vaultEnv.called
  /\ vaultEnv' = [called |-> TRUE] @@ processVaultSecretsDirectory(vaultFs)
  /\ UNCHANGED <<vaultFs, operator, passwords, api, core>>

NextVaultDirectory ==
  \/ ProcessVaultSecretsDirectoryCall

InitVaultDirectory ==
  /\ PipelineIdle
  /\ workers = IdleWorkers
  /\ KubeIdle
  /\ RunIdle
  /\ BuildIdle
  /\ OperatorIdle
  /\ PasswordsIdle
  /\ ApiIdle
  /\ vaultFs \in Directories
  /\ vaultEnv = NoEnv

SpecVaultDirectory == InitVaultDirectory /\ [][NextVaultDirectory]_vars

\* The positions of the entries whose variables are taken: files, not
\* hidden, read and parsed without error.
Processed(entries) ==
  {i \in 1..Len(entries) :
     /\ ~entries[i].IsDir
     /\ entries[i].Name[1] # "."
     /\ processVaultSecretFile(entries[i]).err = NoError}

\* C28: processVaultSecretsDirectory returns an empty map and no error when
\* the directory does not exist, and an error when it cannot be read for
\* another reason. Otherwise it returns, without error, the variables of the
\* entries that are files, whose name does not start with ".", and that can
\* be read and parsed; every other entry adds nothing and fails nothing, and
\* of two files defining a key the one processed later gives the value.
C28_DirectoryProcessing ==
  (vaultFs.kind = "dir" /\ vaultEnv.called) =>
    LET entries == vaultFs.entries
        from(i) == processVaultSecretFile(entries[i]).secrets
        processed == Processed(entries)
    IN /\ vaultFs.state = "missing" =>
            vaultEnv.err = NoError /\ ~vaultEnv.isNil /\ vaultEnv.secrets = <<>>
       /\ vaultFs.state = "unreadable" => vaultEnv.err # NoError
       /\ vaultFs.state = "ok" =>
            /\ vaultEnv.err = NoError
            /\ DOMAIN vaultEnv.secrets = UNION {DOMAIN from(i) : i \in processed}
            /\ \A i \in processed : \A k \in DOMAIN from(i) :
                 (\A j \in processed : j > i => k \notin DOMAIN from(j)) =>
                   vaultEnv.secrets[k] = from(i)[k]

\* A file a that cannot be read and files b and c that both define K: the
\* call succeeds, nothing comes from a, and K has the value of c.
C28_Witness ==
  /\ vaultFs.kind = "dir"
  /\ vaultEnv.called
  /\ vaultFs.state = "ok"
  /\ Len(vaultFs.entries) = 3
  /\ vaultFs.entries[1].Name = <<"a">>
  /\ ~vaultFs.entries[1].IsDir
  /\ ~vaultFs.entries[1].readable
  /\ vaultFs.entries[1].content = <<"K", "K", "=", "K">>
  /\ vaultFs.entries[2] =
       [Name |-> <<"b">>, IsDir |-> FALSE, readable |-> TRUE, parserFails |-> FALSE,
        content |-> <<"K", "=", "K">>]
  /\ vaultFs.entries[3] =
       [Name |-> <<"c">>, IsDir |-> FALSE, readable |-> TRUE, parserFails |-> FALSE,
        content |-> <<"K", "=">>]
  /\ vaultEnv.err = NoError
  /\ DOMAIN vaultEnv.secrets = {<<"K">>}
  /\ vaultEnv.secrets[<<"K">>] = <<>>

\* ================================================= operator-generated secret arguments

\* Most secrets of one MCPServer.
MaxMcpSecrets == 2

\* The secrets of an MCPServer's spec: name, key, optional target.
McpServerSecrets ==
  [Name : {<<"n">>, <<"m">>}, Key : {<<"k">>, <<"j">>}, TargetEnvName : {<<>>, <<"e">>}]

McpServerSecretLists == UNION {[1..n -> McpServerSecrets] : n \in 0..MaxMcpSecrets}

SecretFlag == "--secret="

\* The argument the operator generates for one secret.
SecretArg(secret) ==
  LET secretArg == secret.Name \o <<"/">> \o secret.Key
  IN <<SecretFlag>> \o
       (IF secret.TargetEnvName # <<>>
          THEN secretArg \o <<TargetSep>> \o secret.TargetEnvName
          ELSE secretArg)

\* The loop over m.Spec.Secrets.
SecretArgs(secrets) == [i \in 1..Len(secrets) |-> SecretArg(secrets[i])]

\* The value of each --secret flag, as the runner's command line hands it to
\* RunConfig.Secrets.
FlagValues(args) ==
  LET flags == SelectSeq(args, LAMBDA arg : Len(arg) > 1 /\ arg[1] = SecretFlag)
  IN [i \in 1..Len(flags) |-> Tail(flags[i])]

\* The runner is started with the operator's arguments for the MCPServer's
\* secrets.
InitOperator ==
  /\ PipelineIdle
  /\ workers = IdleWorkers
  /\ KubeIdle
  /\ BuildIdle
  /\ VaultFsIdle
  /\ PasswordsIdle
  /\ ApiIdle
  /\ mcpSecrets \in McpServerSecretLists
  /\ \E options \in ContainerOptionsBefore :
       runConfig = [EnvVars |-> ExistingEnvVars,
                    Secrets |-> FlagValues(SecretArgs(mcpSecrets)),
                    ContainerOptions |-> options]
  /\ runResult = NoResult

NextOperator ==
  \/ WithSecretsCall
  \/ WithSecretsReturn

SpecOperator == InitOperator /\ [][NextOperator]_vars

\* C26: RunConfig.WithSecrets accepts every argument the operator generates,
\* "<name>/<key>" for a secret without TargetEnvName and
\* "<name>/<key>,target=<env>" otherwise, and adds for each a KubernetesSecret
\* with that name and key and with the target, or the key when no target was
\* given, as TargetEnvName.
C26_OperatorArgumentsAccepted ==
  runResult.called =>
    /\ runResult.err = NoError
    /\ LET added == runConfig.ContainerOptions.KubernetesSecrets
           n == Len(mcpSecrets)
       IN /\ Len(added) >= n
          /\ \A i \in 1..n :
               added[Len(added) - n + i] =
                 [Name |-> mcpSecrets[i].Name, Key |-> mcpSecrets[i].Key,
                  TargetEnvName |-> IF mcpSecrets[i].TargetEnvName # <<>>
                                      THEN mcpSecrets[i].TargetEnvName
                                      ELSE mcpSecrets[i].Key]

\* ================================================= order of the response path

\* The steps that emit the audit event and end the telemetry span.
RecordingSteps == {"audit.log", "telemetry.end"}

Count(steps, step) == Cardinality({i \in 1..Len(steps) : steps[i] = step})

\* C25: a request is parsed once and decided at most once: the parsing step
\* and the authorization step are each taken at most once per request, the
\* parsed request in the context is written by the parsing step only, the
\* decision by the authorization step only, and a request that reaches
\* authorization has been parsed exactly once before.
C25_ParsedOnceDecidedAtMostOnce ==
  [][/\ Count(trace', "parse") <= 1
     /\ Count(trace', "authz") <= 1
     /\ Count(trace', "authz") = 1 =>
          /\ Count(trace', "parse") = 1
          /\ Position("parse")' < Position("authz")'
     /\ parsed' # parsed => (trace' = <<>> \/ trace' = Append(trace, "parse"))
     /\ decision' # decision => (trace' = <<>> \/ trace' = Append(trace, "authz"))]_vars

\* A tools/call request has ended after one parse and one decision, and the
\* decision was made on what the parser stored.
C25_Witness ==
  /\ Ended
  /\ Count(trace, "parse") = 1
  /\ Count(trace, "authz") = 1
  /\ parsed.present
  /\ parsed.method = "tools/call"
  /\ decision.evaluated
  /\ InTrace("backend")

\* ================================================= the secrets password

\* Most password prompts shown by one process.
MaxPrompts == 3

Passwords == {"p1", "p2", "p3"}

\* What term.ReadPassword gives at the prompt: a password, nothing, or an
\* error.
ReadFailure == [err |-> "read failed", password |-> ""]

Typed == {[err |-> NoError, password |-> p] : p \in Passwords \cup {""}} \cup {ReadFailure}

ErrDetached == "detached process detected, cannot ask for password"

ErrReadPassword == "failed to read password"

ErrStorePassword == "failed to store password in keyring"

ErrKeyringUnavailable == "OS keyring is not available"

\* keyring.Get(keyringService, keyringService)
KeyringGet(k) ==
  IF ~k.works THEN [err |-> "keyring error", value |-> ""]
  ELSE IF ~k.stored.found THEN [err |-> "ErrNotFound", value |-> ""]
  ELSE [err |-> NoError, value |-> k.stored.value]

\* readPasswordStdin(): the prompt is printed, then the password is read and
\* must be non-empty.
readPasswordStdin(typed) ==
  IF typed.err # NoError THEN [err |-> ErrReadPassword, password |-> ""]
  ELSE IF typed.password = "" THEN [err |-> "password cannot be empty", password |-> ""]
  ELSE [err |-> NoError, password |-> typed.password]

\* Faulty variant: the password read at the prompt is returned but not
\* stored.
GetSecretsPasswordNoStore(k, detached, typed, setFails) ==
  LET got == KeyringGet(k)
      read == readPasswordStdin(typed)
  IN IF got.err = NoError
       THEN [password |-> got.value, err |-> NoError, prompted |-> FALSE, keyring |-> k]
     ELSE IF got.err # "ErrNotFound" \/ detached
       THEN [password |-> "", err |-> ErrKeyringUnavailable, prompted |-> FALSE, keyring |-> k]
     ELSE [password |-> read.password, err |-> read.err, prompted |-> TRUE, keyring |-> k]

\* GetSecretsPassword(): what it returns, whether it prompted, and the
\* keyring afterwards.
GetSecretsPassword(k, detached, typed, setFails) ==
  LET got == KeyringGet(k)
      read == readPasswordStdin(typed)
  IN IF got.err = NoError
       THEN [password |-> got.value, err |-> NoError, prompted |-> FALSE, keyring |-> k]
     ELSE IF got.err = "ErrNotFound"
       THEN IF detached
              THEN [password |-> "", err |-> ErrDetached, prompted |-> FALSE, keyring |-> k]
            ELSE IF read.err # NoError
              THEN [password |-> "", err |-> ErrReadPassword, prompted |-> TRUE,
                    keyring |-> k]
            ELSE IF setFails
              THEN [password |-> "", err |-> ErrStorePassword, prompted |-> TRUE,
                    keyring |-> k]
            ELSE [password |-> read.password, err |-> NoError, prompted |-> TRUE,
                  keyring |-> [k EXCEPT !.stored = [found |-> TRUE, value |-> read.password]]]
     ELSE [password |-> "", err |-> ErrKeyringUnavailable, prompted |-> FALSE, keyring |-> k]

\* ResetKeyringSecret(): keyring.DeleteAll(keyringService)
ResetKeyringSecret(k) ==
  IF ~k.works THEN [err |-> "keyring error", keyring |-> k]
  ELSE [err |-> NoError, keyring |-> [k EXCEPT !.stored = NotStored]]

exceptPasswords == <<operator, vaultfs, api, core>>

GetSecretsPasswordCall ==
  \E typed \in Typed, setFails \in BOOLEAN :
    LET r == GetSecretsPassword(keyring, terminal.detached, typed, setFails)
    IN /\ ~passwordResult.called
       /\ r.prompted => terminal.prompts < MaxPrompts
       /\ keyring' = r.keyring
       /\ terminal' = [terminal EXCEPT !.prompts = IF r.prompted THEN @ + 1 ELSE @]
       /\ passwordResult' = [called |-> TRUE, op |-> "GetSecretsPassword",
                             password |-> r.password, err |-> r.err,
                             prompted |-> r.prompted]
       /\ UNCHANGED exceptPasswords

ResetKeyringSecretCall ==
  /\ ~passwordResult.called
  /\ keyring' = ResetKeyringSecret(keyring).keyring
  /\ passwordResult' = [called |-> TRUE, op |-> "ResetKeyringSecret", password |-> "",
                        err |-> ResetKeyringSecret(keyring).err, prompted |-> FALSE]
  /\ UNCHANGED <<terminal, exceptPasswords>>

\* The caller has taken the result.
PasswordReturn ==
  /\ passwordResult.called
  /\ passwordResult' = NoPassword
  /\ UNCHANGED <<keyring, terminal, exceptPasswords>>

\* The OS keyring stops or starts working (locked, service gone or back);
\* what it holds stays.
KeyringAvailabilityChanges ==
  /\ ~passwordResult.called
  /\ keyring' = [keyring EXCEPT !.works = ~@]
  /\ UNCHANGED <<terminal, passwordResult, exceptPasswords>>

NextPasswords ==
  \/ GetSecretsPasswordCall
  \/ ResetKeyringSecretCall
  \/ PasswordReturn
  \/ KeyringAvailabilityChanges

\* A process, detached or not, with a keyring that works or not and holds a
\* password or none.
InitPasswords ==
  /\ PipelineIdle
  /\ workers = IdleWorkers
  /\ KubeIdle
  /\ RunIdle
  /\ BuildIdle
  /\ OperatorIdle
  /\ VaultFsIdle
  /\ ApiIdle
  /\ keyring \in [works : BOOLEAN,
                  stored : {NotStored} \cup {[found |-> TRUE, value |-> p] : p \in Passwords}]
  /\ terminal \in [detached : BOOLEAN, prompts : {0}]
  /\ passwordResult = NoPassword

SpecPasswords == InitPasswords /\ [][NextPasswords]_vars

\* C29: GetSecretsPassword returns the stored password without prompting
\* when the keyring holds one. With a working keyring that holds none, a
\* detached process gets an error, no prompt and an unchanged keyring; an
\* interactive process is prompted once, and a password it gets back is
\* non-empty and already stored. With any other keyring error the call
\* fails without prompt or write. The stored password changes only by
\* such a first interactive call and by ResetKeyringSecret, so later calls
\* return the same password without prompting.
C29_PasswordFromKeyringOrOnePrompt ==
  [][/\ (passwordResult'.called /\ ~passwordResult.called
           /\ passwordResult'.op = "GetSecretsPassword") =>
          LET r == passwordResult'
              shown == terminal'.prompts - terminal.prompts
          IN /\ (keyring.works /\ keyring.stored.found) =>
                  /\ r.err = NoError /\ r.password = keyring.stored.value
                  /\ shown = 0 /\ keyring' = keyring
             /\ (keyring.works /\ ~keyring.stored.found /\ terminal.detached) =>
                  r.err # NoError /\ shown = 0 /\ keyring' = keyring
             /\ (keyring.works /\ ~keyring.stored.found /\ ~terminal.detached) =>
                  /\ shown = 1
                  /\ r.err = NoError =>
                       /\ r.password # ""
                       /\ keyring' = [keyring EXCEPT !.stored =
                                        [found |-> TRUE, value |-> r.password]]
                  /\ r.err # NoError => keyring' = keyring
             /\ ~keyring.works => r.err # NoError /\ shown = 0 /\ keyring' = keyring
     /\ keyring'.stored # keyring.stored =>
          \/ passwordResult'.op = "ResetKeyringSecret"
          \/ /\ passwordResult'.op = "GetSecretsPassword"
             /\ ~keyring.stored.found /\ ~terminal.detached
     /\ terminal'.prompts # terminal.prompts => ~keyring.stored.found /\ ~terminal.detached]_vars

\* An interactive process whose keyring held nothing was prompted once and
\* typed p1; a later call returned p1 from the keyring without a prompt.
C29_Witness ==
  /\ passwordResult.called
  /\ passwordResult.op = "GetSecretsPassword"
  /\ passwordResult.password = "p1"
  /\ passwordResult.err = NoError
  /\ ~passwordResult.prompted
  /\ ~terminal.detached
  /\ terminal.prompts = 1
  /\ keyring.stored = [found |-> TRUE, value |-> "p1"]

\* ================================================= the version route

\* Most requests the API server answers.
MaxApiRequests == 3

\* versions.GetVersionInfo().Version of the build.
Versions == {"dev", "v0.1.0", "v0.2.0"}

ApiMethods == {"GET", "POST", "DELETE"}

Routes == {"version", "health"}

ContentType == "Content-Type"

\* json.NewEncoder(w).Encode(versionResponse{Version: v}): what it writes.
EncodeVersionResponse(v) == <<"{\"version\":\"", v, "\"}", "\n">>

\* http.DetectContentType of a body that is JSON text.
DetectContentType(body) == "text/plain; charset=utf-8"

\* w.Header().Set(key, value): the header map changes, what was sent does not.
HeaderSet(w, key, value) ==
  [w EXCEPT !.header = [k \in DOMAIN w.header \cup {key} |->
                          IF k = key THEN value ELSE w.header[k]]]

\* w.WriteHeader(status): the first call sends the status line and a copy
\* of the header map; later calls are ignored.
WriteHeader(w, status) ==
  IF w.wroteHeader THEN w
  ELSE [w EXCEPT !.wroteHeader = TRUE, !.status = status, !.sent = w.header]

\* w.Write(data): sends the header first when it was not sent, with a
\* Content-Type detected from the data when the handler set none. A failed
\* write leaves the body as it was.
Write(w, data, ok) ==
  LET typed == IF ~w.wroteHeader /\ ContentType \notin DOMAIN w.header
                 THEN [w EXCEPT !.header =
                         [k \in DOMAIN w.header \cup {ContentType} |->
                            IF k = ContentType THEN DetectContentType(data)
                            ELSE w.header[k]]]
                 ELSE w
      started == [WriteHeader(typed, 200) EXCEPT !.header = w.header]
  IN IF ok THEN [started EXCEPT !.body = @ \o data] ELSE started

\* http.Error(w, msg, code)
HttpError(w, msg, code, ok) ==
  Write(WriteHeader(HeaderSet(HeaderSet(w, ContentType, "text/plain; charset=utf-8"),
                              "X-Content-Type-Options", "nosniff"),
                    code),
        <<msg, "\n">>, ok)

exceptApi == <<operator, vaultfs, passwords, core>>

\* A request arrives at the API server on one of the two routes.
ApiReceive ==
  \E method \in ApiMethods, route \in Routes :
    /\ apiRequest.pc \in {"idle", "done"}
    /\ apiRequest.answered < MaxApiRequests
    /\ apiRequest' = [apiRequest EXCEPT !.method = method, !.route = route,
                                        !.pc = "routed"]
    /\ writer' = NoWriter
    /\ UNCHANGED exceptApi

\* r.Get("/", handler): the router hands a GET to the handler and answers
\* any other method with 405.
ApiRoute ==
  /\ apiRequest.pc = "routed"
  /\ IF apiRequest.method = "GET"
       THEN /\ apiRequest' = [apiRequest EXCEPT !.pc = "handler"]
            /\ UNCHANGED writer
       ELSE /\ apiRequest' = [apiRequest EXCEPT !.pc = "done", !.answered = @ + 1]
            /\ writer' = WriteHeader(writer, 405)
  /\ UNCHANGED exceptApi

\* getVersion, up to the check of the encoder's error: the version is
\* encoded into the response; when that fails the handler answers with
\* http.Error and returns.
GetVersionEncode ==
  \E ok \in BOOLEAN :
    /\ apiRequest.pc = "handler"
    /\ apiRequest.route = "version"
    /\ IF ok
         THEN /\ writer' = Write(writer, EncodeVersionResponse(apiRequest.version), TRUE)
              /\ apiRequest' = [apiRequest EXCEPT !.pc = "encoded"]
         ELSE /\ writer' =
                   HttpError(Write(writer, EncodeVersionResponse(apiRequest.version), FALSE),
                             "Failed to marshal version info", 500, FALSE)
              /\ apiRequest' = [apiRequest EXCEPT !.pc = "done", !.answered = @ + 1]
    /\ UNCHANGED exceptApi

\* getVersion, last statement: the Content-Type header is set.
GetVersionSetHeader ==
  /\ apiRequest.pc = "encoded"
  /\ writer' = HeaderSet(writer, ContentType, "application/json")
  /\ apiRequest' = [apiRequest EXCEPT !.pc = "done", !.answered = @ + 1]
  /\ UNCHANGED exceptApi

\* getHealthcheck
GetHealthcheck ==
  /\ apiRequest.pc = "handler"
  /\ apiRequest.route = "health"
  /\ writer' = WriteHeader(writer, 204)
  /\ apiRequest' = [apiRequest EXCEPT !.pc = "done", !.answered = @ + 1]
  /\ UNCHANGED exceptApi

NextApi ==
  \/ ApiReceive
  \/ ApiRoute
  \/ GetVersionEncode
  \/ GetVersionSetHeader
  \/ GetHealthcheck

InitApi ==
  /\ PipelineIdle
  /\ workers = IdleWorkers
  /\ KubeIdle
  /\ RunIdle
  /\ BuildIdle
  /\ OperatorIdle
  /\ VaultFsIdle
  /\ PasswordsIdle
  /\ \E v \in Versions : apiRequest = [NoApiRequest EXCEPT !.version = v]
  /\ writer = NoWriter

SpecApi == InitApi /\ [][NextApi]_vars

\* A GET on the version route has been answered and the body was written.
VersionAnswered ==
  /\ apiRequest.pc = "done"
  /\ apiRequest.route = "version"
  /\ apiRequest.method = "GET"
  /\ writer.body # <<>>

\* C30: a GET on the version route is answered with the body
\* {"version": <current version>} and with Content-Type: application/json
\* among the headers sent with that response.
C30_VersionAnsweredAsJson ==
  VersionAnswered =>
    /\ writer.status = 200
    /\ writer.body = <<"{\"version\":\"", apiRequest.version, "\"}", "\n">>
    /\ ContentType \in DOMAIN writer.sent
    /\ writer.sent[ContentType] = "application/json"

====
